---- MODULE Spec2Model ----
(***************************************************************************)
(* A model of the detection and paired-execution core of polymarket-arb:   *)
(* the fill-walk calculator, the opportunity detector, the L2 book state,  *)
(* the market feed client and the paired-order executor.                   *)
(*                                                                         *)
(* Decimal values (rust_decimal::Decimal) are fixed-point integers: the    *)
(* integer d stands for d / DecUnit.  Addition, subtraction and comparison *)
(* are exact; a product is exact whenever it is representable and a        *)
(* quotient is rounded to the last representable digit.                    *)
(***************************************************************************)
EXTENDS Integers, Sequences, FiniteSets, TLC

VARIABLES
    \* ---- detector (pure functions applied to drawn inputs)
    up_book, down_book, config, arb_result, fill_result,
    \* ---- one L2BookState driven by snapshots and deltas
    l2book,        \* the L2BookState
    ref_claim,     \* reference dictionary replayed as the claim words it
    ref_amended,   \* reference dictionary with the side matched in any case
    last_op,       \* the last operation applied (history)
    book_levels,   \* what to_levels returned for the book as it stands
    \* ---- the feed's DashMap of books, shared by the feed task and the driver
    books,         \* asset id -> L2BookState
    guard,         \* the entry the feed task holds a write guard on (get_mut)
    w_ops,         \* steps of the event being applied under the guard
    w_k,           \* how many of them are done
    committed,     \* books as of the last guard release (history)
    reader,        \* the driver's get_book call: pc, asset, copy
    \* ---- the feed task (run_with_reconnect) and the driver's receive loop
    feed_pc,       \* where the feed task is
    connected,     \* the client's connected flag
    pending,       \* the BookUpdate the feed task is sending
    chan,          \* the bounded notification channel
    driver,        \* where the driver is: select, busy, exited
    last_frame,    \* what the last text frame did (history)
    feed_hist,     \* connections made and the last frame's kind (history)
    \* ---- the paired-order executor and the venue it trades against
    now,           \* the clock, in ticks
    dry_run,       \* config.dry_run
    executor,      \* the ArbitrageExecutor
    call,          \* the execute call in flight: its position and locals
    venue,         \* state of the two leg buy orders at the venue
    prev_call,     \* the call before the last one that returned (history)
    last_call,     \* the last call that returned (history)
    \* ---- one wait_for_terminal_order call
    wait_pc,       \* position in the polling loop
    wait_requested,\* requested_size
    wait_clock,    \* start.elapsed(), in poll intervals
    wait_polls,    \* status queries made so far (history)
    wait_last,     \* the answer to the last status query (history)
    wait_state,    \* the OrderState returned
    \* ---- the driver's top-level loop, the HTTP server task and the signal
    wall,          \* wall-clock time, in windows' ticks
    run,           \* the driver: position, mode, market, execute start
    signal,        \* the shutdown signal has been delivered to the process
    server,        \* the HTTP server task: serving, stopped
    \* ---- the feed task's reconnect loop and its backoff
    rc             \* position, attempt counter, delay, reconnect counter

detVars == <<up_book, down_book, config, arb_result, fill_result>>
bookVars == <<l2book, ref_claim, ref_amended, last_op, book_levels>>
sharedVars == <<books, guard, w_ops, w_k, committed, reader>>
feedVars == <<feed_pc, connected, pending, chan, driver, last_frame,
              feed_hist>>
execVars == <<now, dry_run, executor, call, venue, prev_call, last_call>>
waitVars == <<wait_pc, wait_requested, wait_clock, wait_polls, wait_last,
              wait_state>>
runVars == <<wall, run, signal, server>>
rcVars == <<rc>>
vars == <<detVars, bookVars, sharedVars, feedVars, execVars, waitVars,
         runVars, rcVars>>

-----------------------------------------------------------------------------
(* Decimal arithmetic *)

\* One unit of account (Decimal::ONE); the last representable digit is 1/DecUnit.
DecUnit == 1000

\* A price given in cents.
Cents(c) == c * (DecUnit \div 100)
\* A whole number of shares.
Shares(n) == n * DecUnit

DecMul(a, b) == (a * b) \div DecUnit

\* a / b rounded to the nearest representable value (a >= 0, b > 0).
DecDiv(a, b) ==
    LET n == a * DecUnit
        q == n \div b
        r == n % b
    IN IF 2 * r >= b THEN q + 1 ELSE q

None == <<>>
Some(v) == <<v>>
IsSome(o) == Len(o) = 1
Unwrap(o) == o[1]
UnwrapOrDefault(o) == IF IsSome(o) THEN o[1] ELSE 0

Min(a, b) == IF a <= b THEN a ELSE b

-----------------------------------------------------------------------------
(* Wire values of the feed: prices, sizes and sides arrive as strings *)

\* str::parse::<Decimal>() on the strings the model draws; None is a parse error.
ParseDecimal(s) ==
    CASE s = "0.48"  -> Some(Cents(48))
      [] s = "0.480" -> Some(Cents(48))
      [] s = "0.50"  -> Some(Cents(50))
      [] s = "100"   -> Some(Shares(100))
      [] s = "150"   -> Some(Shares(150))
      [] s = "0"     -> Some(0)
      [] s = "-5"    -> Some(0 - Shares(5))
      [] OTHER       -> None

\* str::to_uppercase() on the side strings the model draws.
ToUppercase(s) ==
    CASE s = "buy"  -> "BUY"
      [] s = "Sell" -> "SELL"
      [] s = "hold" -> "HOLD"
      [] OTHER      -> s

WsLevel(p, s) == [price |-> p, size |-> s]
WsPriceChange(a, p, s, side, h) ==
    [asset_id |-> a, price |-> p, size |-> s, side |-> side, hash |-> h]

-----------------------------------------------------------------------------
(* L2 book state: orderbook/websocket.rs *)

EmptyMap == <<>>
MapInsert(m, k, v) == [x \in (DOMAIN m) \cup {k} |-> IF x = k THEN v ELSE m[x]]
MapRemove(m, k) == [x \in (DOMAIN m) \ {k} |-> m[x]]

\* L2BookState::default()
DefaultBook ==
    [bids |-> EmptyMap, asks |-> EmptyMap, last_timestamp_ms |-> None, last_hash |-> None]

\* One iteration of a snapshot's insertion loop.
InsertLevel(m, level) ==
    LET price == ParseDecimal(level.price)
        size == ParseDecimal(level.size)
    IN IF IsSome(price) /\ IsSome(size) /\ Unwrap(size) > 0
       THEN MapInsert(m, Unwrap(price), Unwrap(size))
       ELSE m

\* The steps of apply_snapshot, in program order.
SnapshotOps(bids, asks) ==
    <<[op |-> "clear_bids"], [op |-> "clear_asks"]>>
    \o [i \in 1..Len(bids) |-> [op |-> "insert_bid", level |-> bids[i]]]
    \o [i \in 1..Len(asks) |-> [op |-> "insert_ask", level |-> asks[i]]]

\* The steps of apply_delta, in program order (none after an early return).
DeltaOps(change) ==
    LET price == ParseDecimal(change.price)
        size == ParseDecimal(change.size)
        side == ToUppercase(change.side)
    IN IF ~IsSome(price) \/ ~IsSome(size) \/ side \notin {"BUY", "SELL"} THEN <<>>
       ELSE <<[op    |-> IF Unwrap(size) <= 0 THEN "remove" ELSE "insert",
               side  |-> IF side = "BUY" THEN "bids" ELSE "asks",
               price |-> Unwrap(price),
               size  |-> Unwrap(size)]>>
            \o (IF IsSome(change.hash)
                THEN <<[op |-> "set_hash", hash |-> change.hash]>> ELSE <<>>)

\* The effect of one step on an L2BookState.
DoOp(st, o) ==
    CASE o.op = "clear_bids" -> [st EXCEPT !.bids = EmptyMap]
      [] o.op = "clear_asks" -> [st EXCEPT !.asks = EmptyMap]
      [] o.op = "insert_bid" -> [st EXCEPT !.bids = InsertLevel(st.bids, o.level)]
      [] o.op = "insert_ask" -> [st EXCEPT !.asks = InsertLevel(st.asks, o.level)]
      [] o.op = "insert" ->
            IF o.side = "bids"
            THEN [st EXCEPT !.bids = MapInsert(st.bids, o.price, o.size)]
            ELSE [st EXCEPT !.asks = MapInsert(st.asks, o.price, o.size)]
      [] o.op = "remove" ->
            IF o.side = "bids"
            THEN [st EXCEPT !.bids = MapRemove(st.bids, o.price)]
            ELSE [st EXCEPT !.asks = MapRemove(st.asks, o.price)]
      [] o.op = "set_hash" -> [st EXCEPT !.last_hash = o.hash]
      [] o.op = "set_timestamp" -> [st EXCEPT !.last_timestamp_ms = o.timestamp]

\* The state after the first k steps of ops.
RECURSIVE RunOps(_, _, _)
RunOps(st, ops, k) == IF k = 0 THEN st ELSE DoOp(RunOps(st, ops, k - 1), ops[k])

\* Mutant: the snapshot is merged into the book without clearing it first.
apply_snapshot_no_clear(st, bids, asks) ==
    LET ops == SubSeq(SnapshotOps(bids, asks), 3, 2 + Len(bids) + Len(asks))
    IN RunOps(st, ops, Len(ops))

apply_snapshot(st, bids, asks) ==
    LET ops == SnapshotOps(bids, asks) IN RunOps(st, ops, Len(ops))

apply_delta(st, change) ==
    LET ops == DeltaOps(change) IN RunOps(st, ops, Len(ops))

\* The keys of S as a sequence, descending or ascending (Vec::sort_by).
RECURSIVE SortBy(_, _)
SortBy(S, descending) ==
    IF S = {} THEN <<>>
    ELSE LET first == CHOOSE x \in S :
                        \A y \in S : IF descending THEN x >= y ELSE x <= y
         IN <<first>> \o SortBy(S \ {first}, descending)

\* One side of to_levels: the entries with size > 0, sorted by price.
SideLevels(m, descending) ==
    LET prices == SortBy({p \in DOMAIN m : m[p] > 0}, descending)
    IN [i \in 1..Len(prices) |-> [price |-> prices[i], size |-> m[prices[i]]]]

\* Mutant: both sides are sorted by ascending price.
to_levels_ascending(st) == <<SideLevels(st.bids, FALSE), SideLevels(st.asks, FALSE)>>

\* to_levels: <<bids, asks>>, bids descending and asks ascending.
to_levels(st) == <<SideLevels(st.bids, TRUE), SideLevels(st.asks, FALSE)>>

\* to_levels has not been called since the book last changed.
NoLevels == [kind |-> "NotRun"]

-----------------------------------------------------------------------------
(* Reference dictionary of the book claim: a set of <<price, size>> entries *)

RefSet(d, price, size) == {e \in d : e[1] # price} \cup {<<price, size>>}
RefDelete(d, price) == {e \in d : e[1] # price}

\* A wire level or change as a (price, size) pair, when it is one.
IsPair(x) == IsSome(ParseDecimal(x.price)) /\ IsSome(ParseDecimal(x.size))
PriceOf(x) == Unwrap(ParseDecimal(x.price))
SizeOf(x) == Unwrap(ParseDecimal(x.size))

RECURSIVE RefInsertAll(_, _)
RefInsertAll(d, levels) ==
    IF Len(levels) = 0 THEN d
    ELSE LET l == levels[1]
         IN RefInsertAll(IF IsPair(l) /\ SizeOf(l) > 0
                         THEN RefSet(d, PriceOf(l), SizeOf(l)) ELSE d,
                         Tail(levels))

RefSnapshot(bids, asks) ==
    [bids |-> RefInsertAll({}, bids), asks |-> RefInsertAll({}, asks)]

RefApply(d, c) == IF SizeOf(c) <= 0 THEN RefDelete(d, PriceOf(c)) ELSE RefSet(d, PriceOf(c), SizeOf(c))

\* delta with the side taken literally: "BUY" or "SELL", anything else a no-op.
RefDeltaExact(r, c) ==
    IF ~IsPair(c) THEN r
    ELSE IF c.side = "BUY" THEN [r EXCEPT !.bids = RefApply(r.bids, c)]
    ELSE IF c.side = "SELL" THEN [r EXCEPT !.asks = RefApply(r.asks, c)]
    ELSE r

\* delta with the side compared without regard to case.
RefDeltaAnyCase(r, c) ==
    IF ~IsPair(c) THEN r
    ELSE IF c.side \in {"BUY", "buy"} THEN [r EXCEPT !.bids = RefApply(r.bids, c)]
    ELSE IF c.side \in {"SELL", "Sell"} THEN [r EXCEPT !.asks = RefApply(r.asks, c)]
    ELSE r

Entries(m) == {<<p, m[p]>> : p \in DOMAIN m}
NonZero(d) == {e \in d : e[2] # 0}

-----------------------------------------------------------------------------
(* One L2BookState under a sequence of apply_snapshot / apply_delta calls *)

\* Most levels (bids and asks together) in a drawn snapshot.
MaxSnapLevels == 2

SnapLevelSet ==
    {WsLevel("0.48", "100"), WsLevel("0.480", "150"), WsLevel("0.50", "0"),
     WsLevel("abc", "100")}

RECURSIVE SeqsUpTo(_, _)
SeqsUpTo(S, n) ==
    IF n = 0 THEN {<<>>}
    ELSE SeqsUpTo(S, n - 1)
         \cup {Append(q, x) : q \in {r \in SeqsUpTo(S, n - 1) : Len(r) = n - 1}, x \in S}

SnapshotSet ==
    {sn \in [bids : SeqsUpTo(SnapLevelSet, MaxSnapLevels),
             asks : SeqsUpTo(SnapLevelSet, MaxSnapLevels)] :
        Len(sn.bids) + Len(sn.asks) <= MaxSnapLevels}

DeltaSet ==
    {WsPriceChange(None, p, s, side, h) :
        p \in {"0.48", "0.50", "abc"},
        s \in {"100", "0", "-5", "abc"},
        side \in {"BUY", "SELL", "buy", "hold"},
        h \in {None, Some("h1")}}

BookIdle ==
    /\ l2book = DefaultBook
    /\ ref_claim = [bids |-> {}, asks |-> {}]
    /\ ref_amended = [bids |-> {}, asks |-> {}]
    /\ last_op = [kind |-> "none", side |-> "", removes |-> FALSE]
    /\ book_levels = NoLevels

ApplySnapshot ==
    \E sn \in SnapshotSet :
        /\ l2book' = apply_snapshot(l2book, sn.bids, sn.asks)
        /\ ref_claim' = RefSnapshot(sn.bids, sn.asks)
        /\ ref_amended' = RefSnapshot(sn.bids, sn.asks)
        /\ last_op' = [kind |-> "snapshot", side |-> "", removes |-> FALSE]
        /\ book_levels' = NoLevels
        /\ UNCHANGED <<detVars, sharedVars, feedVars, execVars, waitVars, runVars, rcVars>>

ApplyDelta ==
    \E change \in DeltaSet :
        /\ l2book' = apply_delta(l2book, change)
        /\ ref_claim' = RefDeltaExact(ref_claim, change)
        /\ ref_amended' = RefDeltaAnyCase(ref_amended, change)
        /\ last_op' = [kind |-> "delta", side |-> change.side,
                       removes |-> /\ IsPair(change)
                                   /\ SizeOf(change) <= 0
                                   /\ PriceOf(change) \in DOMAIN l2book.bids]
        /\ book_levels' = NoLevels
        /\ UNCHANGED <<detVars, sharedVars, feedVars, execVars, waitVars, runVars, rcVars>>

\* The driver converts the book as it stands to level vectors.
ToLevels ==
    /\ book_levels = NoLevels
    /\ book_levels' = [kind |-> "Done", bids |-> to_levels(l2book)[1],
                                   asks |-> to_levels(l2book)[2]]
    /\ UNCHANGED <<l2book, ref_claim, ref_amended, last_op>>
    /\ UNCHANGED <<detVars, sharedVars, feedVars, execVars, waitVars, runVars, rcVars>>

NextBook == ApplySnapshot \/ ApplyDelta \/ ToLevels

-----------------------------------------------------------------------------
(* The shared book map: process_message writes an entry under a DashMap     *)
(* write guard, get_book clones it under a read guard.                      *)

\* The writes process_message makes to one entry for a "book" event.
BookEventOps(ev) ==
    SnapshotOps(ev.bids, ev.asks)
    \o <<[op |-> "set_timestamp", timestamp |-> ev.timestamp],
         [op |-> "set_hash", hash |-> ev.hash]>>

\* The writes process_message makes to one entry for one price change.
ChangeOps(change, timestamp) ==
    DeltaOps(change) \o <<[op |-> "set_timestamp", timestamp |-> timestamp]>>

\* init_books: every subscribed asset gets a default book.
\* Mutant: a book that already exists is kept.
init_books_keep_existing(asset_ids) ==
    [a \in asset_ids |-> IF a \in DOMAIN books THEN books[a] ELSE DefaultBook]

init_books(asset_ids) == [a \in asset_ids |-> DefaultBook]

\* Mutant: get_book copies the entry without taking the read guard.
CanReadUnguarded(a) == TRUE

\* get_book(a) can take its read guard: no write guard is held on the entry.
CanRead(a) == guard # Some(a)

\* Most levels (bids and asks together) in a snapshot written under the guard.
MaxSharedLevels == 2

SharedAssets == {"up"}
SharedLevelSet == {WsLevel("0.48", "100")}
SharedTimestamps == {Some(1), Some(2)}

SharedBookEvents ==
    {ev \in [asset_id : SharedAssets,
             bids : SeqsUpTo(SharedLevelSet, MaxSharedLevels),
             asks : SeqsUpTo(SharedLevelSet, MaxSharedLevels),
             timestamp : SharedTimestamps,
             hash : {None, Some("h1")}] :
        Len(ev.bids) + Len(ev.asks) <= MaxSharedLevels}

SharedChanges ==
    {WsPriceChange(Some(a), "0.48", sz, side, None) :
        a \in SharedAssets, sz \in {"100", "0"}, side \in {"BUY", "SELL"}}

ReaderIdle == [pc |-> "idle", asset |-> "", copy |-> None, boundary |-> None]

SharedIdle ==
    /\ books = init_books(SharedAssets)
    /\ guard = None
    /\ w_ops = <<>>
    /\ w_k = 0
    /\ committed = init_books(SharedAssets)
    /\ reader = ReaderIdle

\* books.get_mut(asset_id) for a "book" event: the write guard is taken.
WriterBeginBook ==
    \E ev \in SharedBookEvents :
        /\ guard = None
        /\ guard' = Some(ev.asset_id)
        /\ w_ops' = BookEventOps(ev)
        /\ w_k' = 0
        /\ UNCHANGED <<books, committed, reader, detVars, bookVars, feedVars, execVars, waitVars, runVars, rcVars>>

\* books.get_mut(asset_id) for one entry of a "price_change" event.
WriterBeginChange ==
    \E change \in SharedChanges, ts \in SharedTimestamps :
        /\ guard = None
        /\ guard' = change.asset_id
        /\ w_ops' = ChangeOps(change, ts)
        /\ w_k' = 0
        /\ UNCHANGED <<books, committed, reader, detVars, bookVars, feedVars, execVars, waitVars, runVars, rcVars>>

\* The next write to the guarded entry.
WriterStep ==
    /\ IsSome(guard)
    /\ w_k < Len(w_ops)
    /\ books' = [books EXCEPT ![Unwrap(guard)] = DoOp(@, w_ops[w_k + 1])]
    /\ w_k' = w_k + 1
    /\ UNCHANGED <<guard, w_ops, committed, reader, detVars, bookVars, feedVars, execVars, waitVars, runVars, rcVars>>

\* The write guard goes out of scope.
WriterRelease ==
    /\ IsSome(guard)
    /\ w_k = Len(w_ops)
    /\ guard' = None
    /\ w_ops' = <<>>
    /\ w_k' = 0
    /\ committed' = books
    /\ UNCHANGED <<books, reader, detVars, bookVars, feedVars, execVars, waitVars, runVars, rcVars>>

\* The driver calls get_book(a).
ReaderCall ==
    \E a \in SharedAssets :
        /\ reader.pc = "idle"
        /\ reader' = [pc |-> "waiting", asset |-> a, copy |-> None, boundary |-> None]
        /\ UNCHANGED <<books, guard, w_ops, w_k, committed, detVars, bookVars, feedVars, execVars, waitVars, runVars, rcVars>>

\* get_book takes the read guard and clones the entry.
ReaderClone ==
    /\ reader.pc = "waiting"
    /\ CanRead(reader.asset)
    /\ reader' = [reader EXCEPT !.pc = "done",
                                !.copy = Some(books[reader.asset]),
                                !.boundary = Some(committed[reader.asset])]
    /\ UNCHANGED <<books, guard, w_ops, w_k, committed, detVars, bookVars, feedVars, execVars, waitVars, runVars, rcVars>>

\* The driver is done with the copy.
ReaderDrop ==
    /\ reader.pc = "done"
    /\ reader' = ReaderIdle
    /\ UNCHANGED <<books, guard, w_ops, w_k, committed, detVars, bookVars, feedVars, execVars, waitVars, runVars, rcVars>>

NextShared ==
    \/ WriterBeginBook
    \/ WriterBeginChange
    \/ WriterStep
    \/ WriterRelease
    \/ ReaderCall
    \/ ReaderClone
    \/ ReaderDrop

-----------------------------------------------------------------------------
(* The feed task: run, run_with_reconnect and process_message, and the      *)
(* receive loop of the driver (cmd_run_websocket).                          *)

UnwrapOrEmpty(o) == IF IsSome(o) THEN Unwrap(o) ELSE <<>>

WsEvent(event_type, asset_id, bids, asks, price_changes, timestamp) ==
    [event_type    |-> event_type,
     asset_id      |-> asset_id,
     bids          |-> bids,
     asks          |-> asks,
     price_changes |-> price_changes,
     timestamp     |-> timestamp,
     hash          |-> None]

BookUpdate(asset_id, event_type) == [asset_id |-> asset_id, event_type |-> event_type]

\* The price_change arm: every change that names an asset sets last_update;
\* the delta is applied when the asset has a book.
RECURSIVE ApplyChanges(_, _, _, _)
ApplyChanges(acc, changes, j, timestamp) ==
    IF j > Len(changes) THEN acc
    ELSE LET change == changes[j]
         IN IF ~IsSome(change.asset_id)
            THEN ApplyChanges(acc, changes, j + 1, timestamp)
            ELSE LET a == Unwrap(change.asset_id)
                     hit == a \in DOMAIN acc.books
                     ops == ChangeOps(change, timestamp)
                 IN ApplyChanges(
                        [books       |-> IF hit
                                         THEN [acc.books EXCEPT
                                                 ![a] = RunOps(@, ops, Len(ops))]
                                         ELSE acc.books,
                         last_update |-> Some(BookUpdate(a, "PriceChange")),
                         applied     |-> acc.applied + (IF hit THEN 1 ELSE 0)],
                        changes, j + 1, timestamp)

\* What process_message returns when a `?` leaves the function early.
EarlyNone(acc) == [books |-> acc.books, result |-> None, applied |-> acc.applied]

\* The loop over the events of one frame.
RECURSIVE ProcessEvents(_, _, _)
ProcessEvents(acc, events, i) ==
    IF i > Len(events)
    THEN [books |-> acc.books, result |-> acc.last_update, applied |-> acc.applied]
    ELSE LET event == events[i]
         IN IF ~IsSome(event.event_type) THEN EarlyNone(acc)
            ELSE CASE Unwrap(event.event_type) = "book" ->
                        IF ~IsSome(event.asset_id) THEN EarlyNone(acc)
                        ELSE LET a == Unwrap(event.asset_id)
                                 hit == a \in DOMAIN acc.books
                                 ops == BookEventOps(
                                          [bids      |-> UnwrapOrEmpty(event.bids),
                                           asks      |-> UnwrapOrEmpty(event.asks),
                                           timestamp |-> event.timestamp,
                                           hash      |-> event.hash])
                             IN ProcessEvents(
                                    [books       |-> IF hit
                                                     THEN [acc.books EXCEPT
                                                             ![a] = RunOps(@, ops, Len(ops))]
                                                     ELSE acc.books,
                                     last_update |-> Some(BookUpdate(a, "Book")),
                                     applied     |-> acc.applied + (IF hit THEN 1 ELSE 0)],
                                    events, i + 1)
                   [] Unwrap(event.event_type) = "price_change" ->
                        ProcessEvents(
                            IF IsSome(event.price_changes)
                            THEN ApplyChanges(acc, Unwrap(event.price_changes), 1,
                                              event.timestamp)
                            ELSE acc,
                            events, i + 1)
                   [] OTHER -> ProcessEvents(acc, events, i + 1)

\* process_message: books after the frame, the BookUpdate returned (if any),
\* and how many snapshots and deltas were applied to a book (history).
process_message(bks, frame) ==
    IF ~frame.json_ok
    THEN [books |-> bks, result |-> None, applied |-> 0]
    ELSE ProcessEvents([books |-> bks, last_update |-> None, applied |-> 0],
                       frame.events, 1)

\* Most events in one frame.
MaxEvents == 2
\* Capacity of the notification channel in the model.
ChanCap == 2

FeedAssets == {"up", "down"}
FeedLevel == WsLevel("0.48", "100")

EventSet ==
    {WsEvent(Some("book"), Some("up"), Some(<<FeedLevel>>), None, None, Some(1)),
     WsEvent(Some("book"), None, Some(<<FeedLevel>>), None, None, Some(1)),
     WsEvent(Some("price_change"), None, None, None,
             Some(<<WsPriceChange(Some("up"), "0.50", "100", "SELL", None)>>), Some(1)),
     WsEvent(Some("tick_size_change"), Some("up"), None, None, None, Some(1)),
     WsEvent(None, None, None, None, None, None)}

\* Text frames: a JSON object or array of events, or text that does not parse.
FrameSet ==
    {[json_ok |-> TRUE, events |-> es] : es \in SeqsUpTo(EventSet, MaxEvents)}
    \cup {[json_ok |-> FALSE, events |-> <<>>]}

NoFrame == [applied |-> 0, offered |-> 0]

\* Nothing has connected and no frame has arrived.
NoHistory ==
    [established |-> FALSE, reconnected |-> FALSE, fresh |-> FALSE,
     malformed |-> FALSE, changed |-> FALSE, executing |-> 0]

\* The frame is not JSON, or one of its elements lacks event_type, or one of
\* its book events lacks asset_id.
Malformed(frame) ==
    \/ ~frame.json_ok
    \/ \E i \in 1..Len(frame.events) :
          \/ ~IsSome(frame.events[i].event_type)
          \/ /\ frame.events[i].event_type = Some("book")
             /\ ~IsSome(frame.events[i].asset_id)

FeedIdle ==
    /\ feed_pc = "connecting"
    /\ connected = FALSE
    /\ pending = None
    /\ chan = <<>>
    /\ driver = "select"
    /\ last_frame = NoFrame
    /\ feed_hist = NoHistory

\* run(): init_books, then connect and subscribe; either may fail.
FeedConnect ==
    \E ok \in BOOLEAN :
        /\ feed_pc = "connecting"
        /\ books' = init_books(FeedAssets)
        /\ connected' = (connected \/ ok)
        /\ feed_pc' = IF ok THEN "reading" ELSE "backoff"
        /\ feed_hist' = IF ok
                        THEN [feed_hist EXCEPT
                                !.established = TRUE,
                                !.reconnected = feed_hist.established,
                                !.fresh = TRUE]
                        ELSE feed_hist
        /\ UNCHANGED <<guard, w_ops, w_k, committed, reader,
                       pending, chan, driver, last_frame,
                       detVars, bookVars, execVars, waitVars, runVars, rcVars>>

\* The stream yields a text frame: process_message runs on it.
FeedFrame ==
    \E frame \in FrameSet :
        LET r == process_message(books, frame)
        IN /\ feed_pc = "reading"
           /\ books' = r.books
           /\ last_frame' = [applied |-> r.applied,
                             offered |-> IF IsSome(r.result) THEN 1 ELSE 0]
           /\ pending' = r.result
           /\ feed_hist' = [feed_hist EXCEPT
                              !.fresh = FALSE,
                              !.malformed = Malformed(frame),
                              !.changed = (r.books # books)]
           /\ feed_pc' = IF IsSome(r.result) THEN "sending" ELSE "reading"
           /\ UNCHANGED <<guard, w_ops, w_k, committed, reader,
                          connected, chan, driver, detVars, bookVars, execVars, waitVars, runVars, rcVars>>

\* The stream yields a Close frame or an error.
FeedClose ==
    /\ feed_pc = "reading"
    /\ connected
    /\ connected' = FALSE
    /\ UNCHANGED <<sharedVars, feed_pc, pending, chan, driver, last_frame, feed_hist,
                   detVars, bookVars, execVars, waitVars, runVars, rcVars>>

\* The stream ends.
FeedStreamEnd ==
    /\ feed_pc = "reading"
    /\ feed_pc' = "backoff"
    /\ UNCHANGED <<sharedVars, connected, pending, chan, driver, last_frame, feed_hist,
                   detVars, bookVars, execVars, waitVars, runVars, rcVars>>

\* The backoff sleep is over.
FeedBackoff ==
    /\ feed_pc = "backoff"
    /\ feed_pc' = "connecting"
    /\ UNCHANGED <<sharedVars, connected, pending, chan, driver, last_frame, feed_hist,
                   detVars, bookVars, execVars, waitVars, runVars, rcVars>>

\* tx.send(update).await is polled: Err when the receiver is gone, Ok when
\* there is room, and otherwise the task stays parked in the send.
PollSend ==
    /\ IF driver = "exited"
       THEN /\ feed_pc' = "stopped"
            /\ pending' = None
            /\ chan' = chan
       ELSE IF Len(chan) < ChanCap
       THEN /\ feed_pc' = "reading"
            /\ pending' = None
            /\ chan' = Append(chan, Unwrap(pending))
       ELSE /\ feed_pc' = "send_wait"
            /\ pending' = pending
            /\ chan' = chan
    /\ UNCHANGED <<sharedVars, connected, driver, last_frame, feed_hist,
                   detVars, bookVars, execVars, waitVars, runVars, rcVars>>

\* tx.send(update).await, first poll.
FeedSend ==
    /\ feed_pc = "sending"
    /\ PollSend

\* The parked send is woken: room was made or the receiver was dropped.
FeedSendWake ==
    /\ feed_pc = "send_wait"
    /\ driver = "exited" \/ Len(chan) < ChanCap
    /\ PollSend

\* Mutant: the driver takes the next update while execute is still awaited.
AtSelectOrBusy(d) == d \in {"select", "busy"}

\* The driver task is at the select!: the body of the recv arm, execute
\* included, is awaited inline and has finished.
AtSelect(d) == d = "select"

\* ws_receiver.recv() yields an update; the driver reads the books, runs
\* detection and either goes back to the select or awaits executor.execute.
DriverRecv ==
    \E busy \in BOOLEAN :
        /\ AtSelect(driver)
        /\ chan # <<>>
        /\ chan' = Tail(chan)
        /\ driver' = IF busy THEN "busy" ELSE driver
        /\ feed_hist' = [feed_hist EXCEPT
                           !.executing = @ + (IF busy THEN 1 ELSE 0)]
        /\ UNCHANGED <<sharedVars, feed_pc, connected, pending, last_frame,
                       detVars, bookVars, execVars, waitVars, runVars, rcVars>>

\* executor.execute returns.
DriverResume ==
    /\ driver = "busy"
    /\ driver' = "select"
    /\ feed_hist' = [feed_hist EXCEPT !.executing = @ - 1]
    /\ UNCHANGED <<sharedVars, feed_pc, connected, pending, chan, last_frame,
                   detVars, bookVars, execVars, waitVars, runVars, rcVars>>

\* The market closes: the loop ends and the receiver is dropped.
DriverExit ==
    /\ driver = "select"
    /\ driver' = "exited"
    /\ chan' = <<>>
    /\ UNCHANGED <<sharedVars, feed_pc, connected, pending, last_frame, feed_hist,
                   detVars, bookVars, execVars, waitVars, runVars, rcVars>>

NextFeed ==
    \/ FeedConnect
    \/ FeedFrame
    \/ FeedClose
    \/ FeedStreamEnd
    \/ FeedBackoff
    \/ FeedSend
    \/ FeedSendWake
    \/ DriverRecv
    \/ DriverResume
    \/ DriverExit

-----------------------------------------------------------------------------
(* The paired-order executor: arbitrage/executor.rs, trading/execution.rs   *)

\* Clock ticks per second.
TicksPerSec == 2
\* The clock stops at MaxTime ticks.
MaxTime == 2
\* Most execute calls in one run.
MaxCalls == 3
\* DEFAULT_ORDER_TIMEOUT, in units of DEFAULT_POLL_INTERVAL.
TimeoutTicks == 3

Legs == {"up", "down"}
OtherLeg(leg) == IF leg = "up" THEN "down" ELSE "up"

CooldownSet == {0, 1}
SimBalance == 10 * DecUnit
BalanceMargin == (12 * DecUnit) \div 10
\* The balances get_balance reports: below the required amount but above the
\* investment itself, and exactly the required amount.
BalanceSet == {Cents(500), Cents(588)}

\* ArbitrageExecutor::new
NewExecutor(cooldown_seconds) ==
    [last_execution      |-> None,
     cooldown_seconds    |-> cooldown_seconds,
     trades_executed     |-> 0,
     opportunities_found |-> 0,
     total_invested      |-> 0,
     total_shares_bought |-> 0,
     sim_balance         |-> SimBalance,
     sim_start_balance   |-> SimBalance]

\* No execute call in flight.
IdleCall ==
    [pc             |-> "idle",
     start          |-> 0,
     entry          |-> None,
     balance        |-> None,
     result         |-> "none",
     error          |-> "none",
     unwind         |-> <<>>,
     submit         |-> [l \in Legs |-> "none"],
     wait           |-> [l \in Legs |-> "none"],
     polled         |-> [l \in Legs |-> FALSE],
     filled_size    |-> [l \in Legs |-> None],
     cancel_queue   |-> <<>>,
     after_cancel   |-> "",
     filled_leg     |-> "",
     cancels        |-> <<>>,
     unwind_called  |-> {},
     sells          |-> {},
     actual_investment |-> None,
     remaining_seconds |-> None]

NoCall == [start |-> 0, result |-> "none", live |-> FALSE, filled |-> {}, unwound |-> {}]
NoOrders == [l \in Legs |-> "none"]

-----------------------------------------------------------------------------
(***************************************************************************)
(* The reconnect loop of the feed task (run_with_reconnect) and its        *)
(* backoff: the attempt counter, the delay slept and the reconnect         *)
(* counter.  Delays are in milliseconds.                                   *)
(***************************************************************************)

\* Most backoff sleeps in one run.
MaxSleeps == 7

\* f64::powi for a non-negative exponent.
RECURSIVE powi(_, _)
powi(x, n) == IF n = 0 THEN 1 ELSE x * powi(x, n - 1)

\* ReconnectConfig::from_config: the maximum delay comes from the
\* configuration, the rest from ReconnectConfig::default.
ReconnectConfig(max_delay_s) ==
    [initial_delay_ms |-> 1000, max_delay_s |-> max_delay_s,
     backoff_multiplier |-> 2]

\* config.ws_reconnect_max_delay_s: the default and a shorter one.
MaxDelaySet == {30, 5}

\* ReconnectConfig::next_delay.  The product is an integer that f64 holds
\* exactly, so the cast to u64 truncates nothing.
next_delay(cfg, attempt) ==
    LET delay_ms == cfg.initial_delay_ms * powi(cfg.backoff_multiplier, attempt)
        max_delay_ms == cfg.max_delay_s * 1000
    IN Min(delay_ms, max_delay_ms)

\* The spawned task before its first connection attempt.
NewReconnect(max_delay_s) ==
    [pc |-> "run",
     config |-> ReconnectConfig(max_delay_s),
     attempt |-> 0,
     reconnect_attempts |-> 0,
     subscribed |-> None,      \* the asset ids handed to the last run()
     delay |-> 0,              \* the delay of the last sleep
     used |-> 0,               \* the attempt value that delay was computed from
     sleeps |-> 0,             \* sleeps so far (history)
     quiet |-> 0,              \* sleeps since the last frame received (history)
     prev_delay |-> None]      \* delay of the sleep before, if no frame since

\* The feed task has not been spawned.
RcIdle == rc = NewReconnect(30)

\* The end of an iteration of the loop: next_delay(attempt), fetch_add on
\* the reconnect counter, and the sleep begins.
BeginSleep(r) ==
    [r EXCEPT !.pc = "sleep",
              !.delay = next_delay(r.config, r.attempt),
              !.used = r.attempt,
              !.reconnect_attempts = @ + 1,
              !.sleeps = @ + 1,
              !.quiet = @ + 1,
              !.prev_delay = IF r.quiet > 0 THEN Some(r.delay) ELSE None]

\* ws.run(assets.clone()): the connection fails; or it is made (the client's
\* reconnect counter is zeroed) and the subscription fails; or run returns
\* the stream and the loop zeroes its attempt counter.
RcRun ==
    \E outcome \in {"connect_failed", "subscribe_failed", "ok"} :
        LET r == [rc EXCEPT !.subscribed = Some(FeedAssets)]
        IN /\ rc.pc = "run"
           /\ outcome # "ok" => rc.sleeps < MaxSleeps
           /\ rc' = IF outcome = "connect_failed" THEN BeginSleep(r)
                    ELSE IF outcome = "subscribe_failed"
                    THEN BeginSleep([r EXCEPT !.reconnect_attempts = 0])
                    ELSE [r EXCEPT !.pc = "stream",
                                   !.reconnect_attempts = 0,
                                   !.attempt = 0]
           /\ UNCHANGED <<detVars, bookVars, sharedVars, feedVars, execVars,
                          waitVars, runVars>>

\* The socket delivers a frame.  If it yields an update the update is sent
\* to the driver; the task returns when the receiver is gone.
RcFrame ==
    \E sent \in {"no_update", "sent", "closed"} :
        /\ rc.pc = "stream"
        /\ rc' = [rc EXCEPT !.quiet = 0,
                            !.pc = IF sent = "closed" THEN "stopped" ELSE @]
        /\ UNCHANGED <<detVars, bookVars, sharedVars, feedVars, execVars,
                       waitVars, runVars>>

\* The stream ends: the connection was closed or broke.
RcStreamEnd ==
    /\ rc.pc = "stream"
    /\ rc.sleeps < MaxSleeps
    /\ rc' = BeginSleep(rc)
    /\ UNCHANGED <<detVars, bookVars, sharedVars, feedVars, execVars,
                   waitVars, runVars>>

\* The sleep is over: attempt = attempt.saturating_add(1), next iteration.
RcWake ==
    /\ rc.pc = "sleep"
    /\ rc' = [rc EXCEPT !.pc = "run", !.attempt = @ + 1]
    /\ UNCHANGED <<detVars, bookVars, sharedVars, feedVars, execVars,
                   waitVars, runVars>>

NextReconnect ==
    \/ RcRun
    \/ RcFrame
    \/ RcStreamEnd
    \/ RcWake

-----------------------------------------------------------------------------
(***************************************************************************)
(* The driver: the top-level loop of cmd_run and cmd_run_websocket, the    *)
(* HTTP server task they spawn, and the shutdown signal.  The wall clock   *)
(* counts ticks; a market window lasts WINDOW_SECONDS ticks.               *)
(***************************************************************************)

\* Market::WINDOW_SECONDS (BTC_15M_WINDOW), in ticks of the wall clock.
WINDOW_SECONDS == 2

\* Last tick of the wall clock.
MaxWall == 4

\* Market { start_timestamp, end_timestamp: start_timestamp + window }.
Market(start_timestamp) ==
    [start_timestamp |-> start_timestamp,
     end_timestamp |-> start_timestamp + WINDOW_SECONDS]

\* Mutant: the market never counts as closed.
is_closed_never(market, t) == FALSE

\* Market::is_closed at wall-clock time t.
is_closed(market, t) == t >= market.end_timestamp

\* try_computed_slugs: the window that holds t and the one after it; a
\* market is returned only while t is before its close.
DiscoverableMarkets(t) ==
    { m \in { Market(((t \div WINDOW_SECONDS) + i) * WINDOW_SECONDS) :
                  i \in {0, 1} } :
        t < m.end_timestamp }

\* The driver before its first discovery.
NewRun(websocket) ==
    [pc |-> "discover", websocket |-> websocket, market |-> None,
     began |-> None]

\* The driver has not been started.
RunIdle ==
    /\ wall = 0
    /\ run = NewRun(TRUE)
    /\ signal = FALSE
    /\ server = "serving"

\* Time passes, wherever the tasks are.
RunTick ==
    /\ wall < MaxWall
    /\ wall' = wall + 1
    /\ UNCHANGED <<run, signal, server,
                   detVars, bookVars, sharedVars, feedVars, execVars, waitVars, rcVars>>

\* Head of the outer loop: discover_active_market; on Err, sleep 30 s and
\* retry.
RunDiscover ==
    \E found \in {None} \cup { Some(m) : m \in DiscoverableMarkets(wall) } :
        /\ run.pc = "discover"
        /\ run' = IF IsSome(found)
                  THEN [run EXCEPT !.pc = "head", !.market = found]
                  ELSE [run EXCEPT !.pc = "retry"]
        /\ UNCHANGED <<wall, signal, server,
                       detVars, bookVars, sharedVars, feedVars, execVars, waitVars, rcVars>>

\* sleep(30 s); continue
RunRetry ==
    /\ run.pc = "retry"
    /\ run' = [run EXCEPT !.pc = "discover"]
    /\ UNCHANGED <<wall, signal, server,
                   detVars, bookVars, sharedVars, feedVars, execVars, waitVars, rcVars>>

\* while !market.is_closed(): the condition of the monitoring loop.
RunHead ==
    /\ run.pc = "head"
    /\ run' = IF is_closed(Unwrap(run.market), wall)
              THEN [run EXCEPT !.pc = "summary"]
              ELSE [run EXCEPT !.pc = "await"]
    /\ UNCHANGED <<wall, signal, server,
                   detVars, bookVars, sharedVars, feedVars, execVars, waitVars, rcVars>>

\* The body of the monitoring loop up to the execute call.  With the feed:
\* select! over ws_receiver.recv() and a 1 s sleep; the recv arm runs the
\* detection and starts execute on an opportunity, the sleep arm breaks if
\* the market is closed.  Polling: join! of the two book fetches, then the
\* detection; a failed fetch sleeps 1 s and continues.
RunAwait ==
    \E arm \in {"books", "timer"}, opportunity \in BOOLEAN :
        /\ run.pc = "await"
        /\ arm = "timer" => ~opportunity
        /\ run' =
             IF arm = "books" /\ opportunity
             THEN [run EXCEPT !.pc = "execute", !.began = Some(wall)]
             ELSE IF /\ arm = "timer"
                     /\ run.websocket
                     /\ is_closed(Unwrap(run.market), wall)
             THEN [run EXCEPT !.pc = "summary"]
             ELSE [run EXCEPT !.pc = "head"]
        /\ UNCHANGED <<wall, signal, server,
                       detVars, bookVars, sharedVars, feedVars, execVars, waitVars, rcVars>>

\* executor.execute(..).await returns, with Ok or Err; the loop goes on.
RunExecuteReturn ==
    /\ run.pc = "execute"
    /\ run' = [run EXCEPT !.pc = "head"]
    /\ UNCHANGED <<wall, signal, server,
                   detVars, bookVars, sharedVars, feedVars, execVars, waitVars, rcVars>>

\* The summary after the monitoring loop, the sleep before the next
\* discovery, and the next iteration of the outer loop.
RunSummary ==
    /\ run.pc = "summary"
    /\ run' = [run EXCEPT !.pc = "discover", !.market = None]
    /\ UNCHANGED <<wall, signal, server,
                   detVars, bookVars, sharedVars, feedVars, execVars, waitVars, rcVars>>

\* The environment sends the shutdown signal to the process.
ShutdownSignal ==
    /\ ~signal
    /\ signal' = TRUE
    /\ UNCHANGED <<wall, run, server,
                   detVars, bookVars, sharedVars, feedVars, execVars, waitVars, rcVars>>

\* shutdown_signal() completes once the signal has arrived.
shutdown_signal(delivered) == delivered

\* The spawned server task: axum::serve(..).with_graceful_shutdown(
\* shutdown_signal()) stops serving when that future completes.
ServerShutdown ==
    /\ server = "serving"
    /\ shutdown_signal(signal)
    /\ server' = "stopped"
    /\ UNCHANGED <<wall, run, signal,
                   detVars, bookVars, sharedVars, feedVars, execVars, waitVars, rcVars>>

NextRun ==
    \/ RunTick
    \/ RunDiscover
    \/ RunRetry
    \/ RunHead
    \/ RunAwait
    \/ RunExecuteReturn
    \/ RunSummary
    \/ ShutdownSignal
    \/ ServerShutdown

-----------------------------------------------------------------------------
\* The answer to a status query that has not been made.
NoReport == [ok |-> FALSE, status |-> None, filled_size |-> None]

\* No wait_for_terminal_order call has started.
WaitIdle ==
    /\ wait_pc = "idle"
    /\ wait_requested = 0
    /\ wait_clock = 0
    /\ wait_polls = 0
    /\ wait_last = NoReport
    /\ wait_state = None

ExecIdle ==
    /\ now = 0
    /\ dry_run = TRUE
    /\ executor = NewExecutor(0)
    /\ call = IdleCall
    /\ venue = NoOrders
    /\ prev_call = [start |-> 0, result |-> "none"]
    /\ last_call = NoCall

-----------------------------------------------------------------------------
(* Inputs drawn for the detector *)

\* Most levels on one ask side of a drawn book.
MaxAskLevels == 2
\* Most levels on one bid side of a drawn book.
MaxBidLevels == 1

PriceSet == {Cents(48), Cents(50), Cents(52)}
LevelSizeSet == {Shares(3), Shares(7)}
OrderSizeSet == {0 - Shares(5), 0, Shares(5), Shares(7)}
ThresholdSet == {Cents(98), Cents(100)}

PriceLevel(p, s) == [price |-> p, size |-> s]

\* All strictly ascending price sequences of length n over PriceSet.
RECURSIVE AscPrices(_)
AscPrices(n) ==
    IF n = 0 THEN {<<>>}
    ELSE {Append(ps, p) : ps \in {q \in AscPrices(n - 1) : TRUE}, p \in PriceSet}

IsStrictlyAscending(ps) == \A i \in 1..(Len(ps) - 1) : ps[i] < ps[i + 1]
IsStrictlyDescending(ps) == \A i \in 1..(Len(ps) - 1) : ps[i] > ps[i + 1]

SidesOfLen(n, asc) ==
    {[i \in 1..n |-> PriceLevel(ps[i], ss[i])] :
        ps \in {q \in AscPrices(n) :
                  IF asc THEN IsStrictlyAscending(q) ELSE IsStrictlyDescending(q)},
        ss \in [1..n -> LevelSizeSet]}

AskSides == UNION {SidesOfLen(n, TRUE) : n \in 0..MaxAskLevels}
\* Only the best bid price is read by the detector: bid sizes are all alike.
BidSides == {b \in UNION {SidesOfLen(n, FALSE) : n \in 0..MaxBidLevels} :
               \A i \in 1..Len(b) : b[i].size = Shares(3)}

-----------------------------------------------------------------------------
(* Price-level model: orderbook/types.rs *)

best_bid(book) == IF Len(book.bids) = 0 THEN None ELSE Some(book.bids[1].price)
best_ask(book) == IF Len(book.asks) = 0 THEN None ELSE Some(book.asks[1].price)

is_inverted(book) ==
    IF IsSome(best_bid(book)) /\ IsSome(best_ask(book))
    THEN Unwrap(best_ask(book)) < Unwrap(best_bid(book))
    ELSE FALSE

RECURSIVE SumSizes(_)
SumSizes(levels) ==
    IF Len(levels) = 0 THEN 0 ELSE levels[1].size + SumSizes(Tail(levels))

total_ask_liquidity(book) == SumSizes(book.asks)

-----------------------------------------------------------------------------
(* Fill-walk calculator: orderbook/aggregator.rs *)

\* Mutant: each visited level is charged in full, not for the consumed part.
RECURSIVE FillWalkWholeLevel(_, _, _)
FillWalkWholeLevel(asks, i, st) ==
    IF i > Len(asks) \/ st.remaining = 0 THEN st
    ELSE LET level == asks[i]
             fill_size == Min(st.remaining, level.size)
         IN FillWalkWholeLevel(asks, i + 1,
                [remaining   |-> st.remaining - fill_size,
                 total_cost  |-> st.total_cost + DecMul(level.size, level.price),
                 worst_price |-> level.price])

\* The for loop of calculate_fill_price: st = [remaining, total_cost, worst_price].
RECURSIVE FillWalk(_, _, _)
FillWalk(asks, i, st) ==
    IF i > Len(asks) \/ st.remaining = 0 THEN st
    ELSE LET level == asks[i]
             fill_size == Min(st.remaining, level.size)
         IN FillWalk(asks, i + 1,
                [remaining   |-> st.remaining - fill_size,
                 total_cost  |-> st.total_cost + DecMul(fill_size, level.price),
                 worst_price |-> level.price])

Vwap(total_cost, target_size) == DecDiv(total_cost, target_size)

\* Mutant: the walk is run without the guard on the target size.
calculate_fill_price_unguarded(asks, target_size) ==
    IF Len(asks) = 0
    THEN [ok |-> FALSE, err |-> "InsufficientLiquidity",
          required |-> target_size, available |-> 0]
    ELSE LET st == FillWalk(asks, 1,
                     [remaining |-> target_size, total_cost |-> 0, worst_price |-> 0])
         IN IF st.remaining # 0
            THEN [ok |-> FALSE, err |-> "InsufficientLiquidity",
                  required |-> target_size, available |-> target_size - st.remaining]
            ELSE [ok |-> TRUE,
                  filled_size |-> target_size,
                  total_cost  |-> st.total_cost,
                  vwap        |-> Vwap(st.total_cost, target_size),
                  worst_price |-> st.worst_price,
                  best_price  |-> Some(asks[1].price)]

calculate_fill_price(asks, target_size) ==
    IF target_size <= 0
    THEN [ok |-> FALSE, err |-> "InvalidSize", required |-> target_size, available |-> 0]
    ELSE IF Len(asks) = 0
    THEN [ok |-> FALSE, err |-> "InsufficientLiquidity",
          required |-> target_size, available |-> 0]
    ELSE LET st == FillWalk(asks, 1,
                     [remaining |-> target_size, total_cost |-> 0, worst_price |-> 0])
         IN IF st.remaining # 0
            THEN [ok |-> FALSE, err |-> "InsufficientLiquidity",
                  required |-> target_size, available |-> target_size - st.remaining]
            ELSE [ok |-> TRUE,
                  filled_size |-> target_size,
                  total_cost  |-> st.total_cost,
                  vwap        |-> Vwap(st.total_cost, target_size),
                  worst_price |-> st.worst_price,
                  best_price  |-> Some(asks[1].price)]

-----------------------------------------------------------------------------
(* Opportunity detector: arbitrage/calculator.rs, arbitrage/detector.rs *)

\* Mutant: no cost is rejected.
ExceedsThresholdNever(total_cost, threshold) == FALSE

\* Mutant: a cost equal to the threshold is rejected as well.
ExceedsThresholdStrict(total_cost, threshold) == total_cost >= threshold

\* The profitability test of calculate_opportunity: TRUE means "return None".
ExceedsThreshold(total_cost, threshold) == total_cost > threshold

\* Mutant: the limit price is the best ask instead of the worst fill price.
LimitPriceBest(fill) == Unwrap(fill.best_price)

\* The limit price taken from a fill.
LimitPrice(fill) == fill.worst_price

calculate_opportunity(up, down, target_size, threshold) ==
    LET up_fill == calculate_fill_price(up.asks, target_size)
        down_fill == calculate_fill_price(down.asks, target_size)
    IN IF ~up_fill.ok \/ ~down_fill.ok THEN None
       ELSE LET up_price == LimitPrice(up_fill)
                down_price == LimitPrice(down_fill)
                total_cost == up_price + down_price
            IN IF ExceedsThreshold(total_cost, threshold) THEN None
               ELSE LET profit_per_share == DecUnit - total_cost
                        total_investment == DecMul(total_cost, target_size)
                        expected_payout == target_size
                    IN Some([up_price         |-> up_price,
                             down_price       |-> down_price,
                             total_cost       |-> total_cost,
                             profit_per_share |-> profit_per_share,
                             order_size       |-> target_size,
                             total_investment |-> total_investment,
                             expected_payout  |-> expected_payout,
                             expected_profit  |-> expected_payout - total_investment,
                             best_ask_up      |-> up_fill.best_price,
                             best_ask_down    |-> down_fill.best_price,
                             vwap_up          |-> Some(up_fill.vwap),
                             vwap_down        |-> Some(down_fill.vwap)])

BookInverted(side, book) ==
    [kind |-> "Err", err |-> "BookInverted", side |-> side,
     best_ask |-> UnwrapOrDefault(best_ask(book)),
     best_bid |-> UnwrapOrDefault(best_bid(book))]

\* Mutant: the DOWN book is validated before the UP book.
InvertedSideDownFirst(up, down) ==
    IF is_inverted(down) THEN "DOWN"
    ELSE IF is_inverted(up) THEN "UP"
    ELSE ""

\* Which book check_arbitrage reports as inverted: "UP", "DOWN" or "" for neither.
InvertedSide(up, down) ==
    IF is_inverted(up) THEN "UP"
    ELSE IF is_inverted(down) THEN "DOWN"
    ELSE ""

check_arbitrage(up, down, cfg) ==
    IF InvertedSide(up, down) = "UP" THEN BookInverted("UP", up)
    ELSE IF InvertedSide(up, down) = "DOWN" THEN BookInverted("DOWN", down)
    ELSE IF Len(up.asks) = 0 \/ Len(down.asks) = 0 THEN [kind |-> "Ok", opp |-> None]
    ELSE [kind |-> "Ok",
          opp |-> calculate_opportunity(up, down, cfg.order_size, cfg.target_pair_cost)]

\* Config::validate, as far as the detector's two settings go: TRUE means Ok.
config_validate(cfg) ==
    IF cfg.order_size < Shares(5) THEN FALSE
    ELSE IF cfg.target_pair_cost >= DecUnit THEN FALSE
    ELSE TRUE

NotRun == [kind |-> "NotRun"]

\* The detector's variables when a specification does not exercise it.
DetectorIdle ==
    /\ up_book = [bids |-> <<>>, asks |-> <<>>]
    /\ down_book = [bids |-> <<>>, asks |-> <<>>]
    /\ config = [order_size |-> Shares(5), target_pair_cost |-> Cents(98)]
    /\ arb_result = NotRun
    /\ fill_result = NotRun

InitDetector ==
    /\ BookIdle
    /\ SharedIdle
    /\ FeedIdle
    /\ ExecIdle
    /\ WaitIdle
    /\ RunIdle
    /\ RcIdle
    /\ up_book \in [bids : BidSides, asks : AskSides]
    /\ down_book \in [bids : BidSides, asks : AskSides]
    /\ config \in [order_size : OrderSizeSet, target_pair_cost : ThresholdSet]
    /\ arb_result = NotRun
    /\ fill_result = NotRun

\* The driver calls check_arbitrage on the two books.
CheckArbitrage ==
    /\ arb_result = NotRun
    /\ arb_result' = check_arbitrage(up_book, down_book, config)
    /\ UNCHANGED <<up_book, down_book, config, fill_result>>
    /\ UNCHANGED <<bookVars, sharedVars, feedVars, execVars, waitVars, runVars, rcVars>>

\* A fill walk over the UP ask side for the configured size.
CalculateFillPrice ==
    /\ fill_result = NotRun
    /\ fill_result' = [kind |-> "Done", fill |-> calculate_fill_price(up_book.asks, config.order_size)]
    /\ UNCHANGED <<up_book, down_book, config, arb_result>>
    /\ UNCHANGED <<bookVars, sharedVars, feedVars, execVars, waitVars, runVars, rcVars>>

NextDetector == CheckArbitrage \/ CalculateFillPrice

SpecDetector == InitDetector /\ [][NextDetector]_vars

-----------------------------------------------------------------------------
(* The executor's actions *)

\* The opportunity handed to execute: the detector's result on a book pair.
ExecOpportunity ==
    Unwrap(calculate_opportunity(
        [bids |-> <<>>, asks |-> <<PriceLevel(Cents(48), Shares(7))>>],
        [bids |-> <<>>, asks |-> <<PriceLevel(Cents(50), Shares(7))>>],
        Shares(5), Cents(98)))

\* Mutant: the elapsed time is rounded up to whole seconds.
ElapsedSecsRoundedUp(last, t) == (t - last + TicksPerSec - 1) \div TicksPerSec

\* last.elapsed().as_secs(): whole seconds, truncated.
ElapsedSecs(last, t) == (t - last) \div TicksPerSec

is_cooldown_active(ex, t) ==
    IF IsSome(ex.last_execution)
    THEN ElapsedSecs(Unwrap(ex.last_execution), t) < ex.cooldown_seconds
    ELSE FALSE

\* cooldown_remaining: whole seconds of cooldown left at clock reading t.
cooldown_remaining(ex, t) ==
    IF IsSome(ex.last_execution)
    THEN LET elapsed == ElapsedSecs(Unwrap(ex.last_execution), t)
         IN IF elapsed < ex.cooldown_seconds
            THEN ex.cooldown_seconds - elapsed
            ELSE 0
    ELSE 0

\* What the clock can read in cooldown_remaining, given that it read t in
\* is_cooldown_active just before: the same tick or the next one.
LaterReadings(t) == {t, Min(t + 1, MaxTime)}

\* Mutant: the required balance leaves out the margin.
required_balance_no_margin(opportunity) == opportunity.total_investment

\* let required = opportunity.total_investment * config.balance_margin
required_balance(opportunity) ==
    DecMul(opportunity.total_investment, BalanceMargin)

\* Mutant: a simulated trade lowers total_invested.
execute_simulated_refunds(ex, opportunity) ==
    IF ex.sim_balance < opportunity.total_investment
    THEN [executor |-> ex, result |-> "InsufficientBalance"]
    ELSE [executor |->
            [ex EXCEPT !.sim_balance = @ - opportunity.total_investment,
                       !.total_invested = @ - opportunity.total_investment,
                       !.total_shares_bought = @ + DecMul(opportunity.order_size,
                                                           2 * DecUnit),
                       !.trades_executed = @ + 1],
          result |-> "Simulated"]

\* Mutant: a simulated trade is counted even when the balance is short.
execute_simulated_counts_refusal(ex, opportunity) ==
    IF ex.sim_balance < opportunity.total_investment
    THEN [executor |-> [ex EXCEPT !.trades_executed = @ + 1],
          result |-> "InsufficientBalance"]
    ELSE [executor |->
            [ex EXCEPT !.sim_balance = @ - opportunity.total_investment,
                       !.total_invested = @ + opportunity.total_investment,
                       !.total_shares_bought = @ + DecMul(opportunity.order_size,
                                                           2 * DecUnit),
                       !.trades_executed = @ + 1],
          result |-> "Simulated"]

\* Mutant: only one leg's shares are counted.
execute_simulated_one_leg(ex, opportunity) ==
    IF ex.sim_balance < opportunity.total_investment
    THEN [executor |-> ex, result |-> "InsufficientBalance"]
    ELSE [executor |->
            [ex EXCEPT !.sim_balance = @ - opportunity.total_investment,
                       !.total_invested = @ + opportunity.total_investment,
                       !.total_shares_bought = @ + opportunity.order_size,
                       !.trades_executed = @ + 1],
          result |-> "Simulated"]

\* Mutant: the simulated trade is booked without the balance check.
execute_simulated_unchecked(ex, opportunity) ==
    [executor |->
        [ex EXCEPT !.sim_balance = @ - opportunity.total_investment,
                   !.total_invested = @ + opportunity.total_investment,
                   !.total_shares_bought = @ + DecMul(opportunity.order_size,
                                                       2 * DecUnit),
                   !.trades_executed = @ + 1],
      result |-> "Simulated"]

execute_simulated(ex, opportunity) ==
    IF ex.sim_balance < opportunity.total_investment
    THEN [executor |-> ex, result |-> "InsufficientBalance"]
    ELSE [executor |->
            [ex EXCEPT !.sim_balance = @ - opportunity.total_investment,
                       !.total_invested = @ + opportunity.total_investment,
                       !.total_shares_bought = @ + DecMul(opportunity.order_size,
                                                           2 * DecUnit),
                       !.trades_executed = @ + 1],
          result |-> "Simulated"]

\* The legs whose buy order is filled at the venue.
FilledAtVenue(v) == {l \in Legs : v[l] = "filled"}

\* The value execute is about to return is fixed.
Finish(result, c) ==
    /\ call' = [c EXCEPT !.pc = "return", !.result = result]
    /\ UNCHANGED <<prev_call, last_call>>

\* execute returns: the call record is dropped and the history is shifted.
Return(result, live, v, c) ==
    /\ call' = IdleCall
    /\ prev_call' = [start |-> last_call.start, result |-> last_call.result]
    /\ last_call' = [start   |-> c.start,
                     result  |-> result,
                     live    |-> live,
                     filled  |-> FilledAtVenue(v),
                     unwound |-> c.unwind_called]

\* Mutant: the stamp is made before the cooldown guard returns.
execute_head_stamps_refusal(ex, t) ==
    LET counted == [ex EXCEPT !.opportunities_found = @ + 1]
    IN [executor |-> [counted EXCEPT !.last_execution = Some(t)],
        refused |-> is_cooldown_active(counted, t)]

\* Mutant: the stamp is left to the paths that trade.
execute_head_no_stamp(ex, t) ==
    LET counted == [ex EXCEPT !.opportunities_found = @ + 1]
    IN [executor |-> counted, refused |-> is_cooldown_active(counted, t)]

\* The head of execute: count the opportunity, refuse it inside the cooldown,
\* otherwise stamp last_execution.
execute_head(ex, t) ==
    LET counted == [ex EXCEPT !.opportunities_found = @ + 1]
    IN IF is_cooldown_active(counted, t)
       THEN [executor |-> counted, refused |-> TRUE]
       ELSE [executor |-> [counted EXCEPT !.last_execution = Some(t)],
             refused |-> FALSE]

\* execute, up to its first await: count, cooldown guard, stamp, simulation.
ExecuteStart ==
    /\ call.pc = "idle"
    /\ executor.opportunities_found < MaxCalls
    /\ LET head == execute_head(executor, now)
           c0 == [IdleCall EXCEPT !.start = now, !.entry = Some(executor)]
       IN IF head.refused
          THEN \E later \in LaterReadings(now) :
                   /\ executor' = head.executor
                   /\ now' = later
                   /\ Finish("CooldownActive",
                             [c0 EXCEPT !.remaining_seconds =
                                 Some(cooldown_remaining(head.executor, later))])
                   /\ UNCHANGED venue
          ELSE IF dry_run
          THEN LET r == execute_simulated(head.executor, ExecOpportunity)
               IN /\ executor' = r.executor
                  /\ Finish(r.result, c0)
                  /\ UNCHANGED <<now, venue>>
          ELSE /\ executor' = head.executor
               /\ call' = [c0 EXCEPT !.pc = "balance"]
               /\ venue' = NoOrders
               /\ UNCHANGED <<now, prev_call, last_call>>
    /\ UNCHANGED <<dry_run, detVars, bookVars, sharedVars, feedVars, waitVars, runVars, rcVars>>

\* The errors get_balance returns: generate_auth_headers failed, or the
\* request failed, was answered with an error status or could not be parsed.
BalanceErrorSet == {"SigningError", "SubmissionFailed"}

\* client.get_balance().await? and the balance guard.
GetBalance ==
    \E balance \in {None} \cup {Some(b) : b \in BalanceSet},
       error \in BalanceErrorSet :
        /\ call.pc = "balance"
        /\ IsSome(balance) => error = "SigningError"
        /\ LET c == [call EXCEPT !.balance = Some(balance)]
           IN IF ~IsSome(balance)
              THEN Finish("Error", [c EXCEPT !.error = error])
              ELSE IF Unwrap(balance) < required_balance(ExecOpportunity)
              THEN Finish("InsufficientBalance", c)
              ELSE /\ call' = [c EXCEPT !.pc = "submit"]
                   /\ UNCHANGED <<prev_call, last_call>>
        /\ UNCHANGED <<now, dry_run, executor, venue,
                       detVars, bookVars, sharedVars, feedVars, waitVars, runVars, rcVars>>

\* Mutant: after a one-sided submission the failed leg is the one cancelled.
CancelsAfterSubmitFailedLeg(up_result, down_result) ==
    IF up_result = "ok" /\ down_result = "err" THEN <<"down">>
    ELSE IF up_result = "err" /\ down_result = "ok" THEN <<"up">>
    ELSE <<>>

\* The order ids execute_real cancels in the arms (Ok, Err), (Err, Ok) and
\* (Err, Err) of the match on the submission results.
CancelsAfterSubmit(up_result, down_result) ==
    IF up_result = "ok" /\ down_result = "err" THEN <<"up">>
    ELSE IF up_result = "err" /\ down_result = "ok" THEN <<"down">>
    ELSE <<>>

\* tokio::join! of the two submit_order calls, and the match on its results.
SubmitBoth ==
    \E up_result \in {"ok", "err"}, down_result \in {"ok", "err"} :
        LET res == [l \in Legs |-> IF l = "up" THEN up_result ELSE down_result]
            v == [l \in Legs |-> IF res[l] = "ok" THEN "live" ELSE "none"]
            c == [call EXCEPT !.submit = res]
        IN /\ call.pc = "submit"
           /\ venue' = v
           /\ IF up_result = "ok" /\ down_result = "ok"
              THEN /\ call' = [c EXCEPT !.pc = "wait",
                                        !.wait = [l \in Legs |-> "polling"]]
                   /\ UNCHANGED <<prev_call, last_call>>
              ELSE IF up_result = "err" /\ down_result = "err"
              THEN Finish("NeitherFilled", c)
              ELSE /\ call' = [c EXCEPT
                                 !.pc = "cancel",
                                 !.cancel_queue =
                                     CancelsAfterSubmit(up_result, down_result),
                                 !.after_cancel = "neither"]
                   /\ UNCHANGED <<prev_call, last_call>>
           /\ UNCHANGED <<now, dry_run, executor,
                          detVars, bookVars, sharedVars, feedVars, waitVars, runVars, rcVars>>

\* The venue matches a resting buy order in full.
VenueFill ==
    \E l \in Legs :
        /\ venue[l] = "live"
        /\ call.pc \notin {"idle", "return"}
        /\ venue' = [venue EXCEPT ![l] = "filled"]
        /\ UNCHANGED <<now, dry_run, executor, call, prev_call, last_call,
                       detVars, bookVars, sharedVars, feedVars, waitVars, runVars, rcVars>>

\* The venue kills a buy order it cannot match.
VenueKill ==
    \E l \in Legs :
        /\ venue[l] = "live"
        /\ call.pc \notin {"idle", "return"}
        /\ venue' = [venue EXCEPT ![l] = "canceled"]
        /\ UNCHANGED <<now, dry_run, executor, call, prev_call, last_call,
                       detVars, bookVars, sharedVars, feedVars, waitVars, runVars, rcVars>>

\* The filled_size of the OrderState a fill-wait returns for a filled order:
\* absent, or the size the venue gives with a Filled status, which need not
\* be the requested size.  The answers for the UP order carry no size.
ReportedSizeSet(leg) ==
    IF leg = "up" THEN {None}
    ELSE {None, Some(ExecOpportunity.order_size - Shares(1))}

\* One iteration of wait_for_terminal_order for one leg. The timeout is far
\* longer than the time to the first poll, so the first iteration polls.
WaitPoll ==
    \E l \in Legs, outcome \in {"timeout", "poll_err", "poll_ok"},
       reported \in ReportedSizeSet("up") \cup ReportedSizeSet("down") :
        /\ call.pc = "wait"
        /\ call.wait[l] = "polling"
        /\ reported \in ReportedSizeSet(l)
        /\ (outcome # "poll_ok" \/ venue[l] # "filled") => reported = None
        /\ IF outcome = "timeout"
           THEN /\ call.polled[l]
                /\ call' = [call EXCEPT !.wait[l] = "unfilled"]
           ELSE IF outcome = "poll_ok" /\ venue[l] = "filled"
           THEN call' = [call EXCEPT !.polled[l] = TRUE,
                                     !.wait[l] = "filled",
                                     !.filled_size[l] = reported]
           ELSE call' = [call EXCEPT
                           !.polled[l] = TRUE,
                           !.wait[l] =
                               IF outcome = "poll_ok" /\ venue[l] = "canceled"
                               THEN "unfilled" ELSE "polling"]
        /\ UNCHANGED <<now, dry_run, executor, venue, prev_call, last_call,
                       detVars, bookVars, sharedVars, feedVars, waitVars, runVars, rcVars>>

\* Mutant: after a one-sided fill the filled leg's order is the one cancelled.
CancelsAfterWaitSwapped(up_filled, down_filled) ==
    IF up_filled /\ ~down_filled THEN <<"up">>
    ELSE IF ~up_filled /\ down_filled THEN <<"down">>
    ELSE IF ~up_filled /\ ~down_filled THEN <<"up", "down">>
    ELSE <<>>

\* The order ids execute_real hands to cancel_orders in the arms of the match
\* on (up_filled, down_filled).
CancelsAfterWait(up_filled, down_filled) ==
    IF up_filled /\ ~down_filled THEN <<"down">>
    ELSE IF ~up_filled /\ down_filled THEN <<"up">>
    ELSE IF ~up_filled /\ ~down_filled THEN <<"up", "down">>
    ELSE <<>>

\* Option::unwrap_or
UnwrapOr(opt, default) == IF IsSome(opt) THEN Unwrap(opt) ELSE default

\* Mutant: the planned investment is booked, whatever sizes were filled.
actual_investment_planned(up_filled_size, down_filled_size, opportunity) ==
    opportunity.total_investment

\* actual_investment in the BothFilled arm: filled sizes at the limit prices.
actual_investment(up_filled_size, down_filled_size, opportunity) ==
    DecMul(up_filled_size, opportunity.up_price)
    + DecMul(down_filled_size, opportunity.down_price)

\* Both fill-waits have returned: the match on (up_filled, down_filled).
WaitDone ==
    /\ call.pc = "wait"
    /\ \A l \in Legs : call.wait[l] \in {"filled", "unfilled"}
    /\ LET up_filled == call.wait["up"] = "filled"
           down_filled == call.wait["down"] = "filled"
           up_filled_size == UnwrapOr(call.filled_size["up"],
                                      ExecOpportunity.order_size)
           down_filled_size == UnwrapOr(call.filled_size["down"],
                                        ExecOpportunity.order_size)
           invested == actual_investment(up_filled_size, down_filled_size,
                                         ExecOpportunity)
       IN IF up_filled /\ down_filled
          THEN /\ executor' = [executor EXCEPT
                                 !.trades_executed = @ + 1,
                                 !.total_invested = @ + invested,
                                 !.total_shares_bought =
                                     @ + up_filled_size + down_filled_size]
               /\ Finish("BothFilled",
                         [call EXCEPT
                            !.actual_investment = Some(invested)])
          ELSE /\ call' = [call EXCEPT
                             !.pc = "cancel",
                             !.cancel_queue =
                                 CancelsAfterWait(up_filled, down_filled),
                             !.after_cancel =
                                 IF up_filled \/ down_filled
                                 THEN "unwind" ELSE "neither",
                             !.filled_leg =
                                 IF up_filled THEN "up"
                                 ELSE IF down_filled THEN "down" ELSE ""]
               /\ UNCHANGED <<executor, prev_call, last_call>>
    /\ UNCHANGED <<now, dry_run, venue, detVars, bookVars, sharedVars, feedVars, waitVars, runVars, rcVars>>

\* Mutant: a failed cancellation is propagated with `?`.
after_cancel_orders_propagates(ok, continuation) ==
    IF ok THEN continuation ELSE "error"

\* `let _ = cancel_orders(..).await;`: the arm goes on to its continuation
\* (the unwind, or the NeitherFilled value) whatever cancel_orders returned.
after_cancel_orders(ok, continuation) == continuation

\* cancel_orders: the DELETE for the next order id. A failure returns from
\* cancel_orders at once; its result is discarded by the caller either way.
CancelNext ==
    \E ok \in BOOLEAN :
        LET leg == Head(call.cancel_queue)
            rest == IF ok THEN Tail(call.cancel_queue) ELSE <<>>
            v == IF ok /\ venue[leg] = "live"
                 THEN [venue EXCEPT ![leg] = "canceled"] ELSE venue
            c == [call EXCEPT
                    !.cancels = Append(@, [leg |-> leg, ok |-> ok]),
                    !.cancel_queue = rest]
        IN /\ call.pc = "cancel"
           /\ call.cancel_queue # <<>>
           /\ venue' = v
           /\ IF rest # <<>>
              THEN /\ call' = c
                   /\ UNCHANGED <<prev_call, last_call>>
              ELSE IF after_cancel_orders(ok, call.after_cancel) = "unwind"
              THEN /\ call' = [c EXCEPT !.pc = "unwind"]
                   /\ UNCHANGED <<prev_call, last_call>>
              ELSE IF after_cancel_orders(ok, call.after_cancel) = "neither"
              THEN Finish("NeitherFilled", c)
              ELSE Finish("Error", [c EXCEPT !.error = "CancelFailed"])
           /\ UNCHANGED <<now, dry_run, executor,
                          detVars, bookVars, sharedVars, feedVars, waitVars, runVars, rcVars>>

\* OrderParams::validate.
validate(params) ==
    IF params.token_id = "" THEN "token_id cannot be empty"
    ELSE IF params.price <= 0 THEN "price must be positive"
    ELSE IF params.size <= 0 THEN "size must be positive"
    ELSE "ok"

\* The books get_order_book can return for the filled token: an empty bid
\* side, a best bid at the one-cent tick, a best bid above it.
UnwindBookSet ==
    {[bids |-> <<>>, asks |-> <<>>],
     [bids |-> <<PriceLevel(Cents(1), Shares(7))>>, asks |-> <<>>],
     [bids |-> <<PriceLevel(Cents(47), Shares(7))>>, asks |-> <<>>]}

\* Mutant: the sell order is priced at the best bid, with no concession.
UnwindParamsAtBestBid(leg, size, bid) ==
    [token_id |-> leg, side |-> "SELL", price |-> bid,
     size |-> size, tif |-> "GTC"]

\* The sell order attempt_unwind builds from the best bid.
UnwindParams(leg, size, bid) ==
    [token_id |-> leg, side |-> "SELL", price |-> bid - Cents(1),
     size |-> size, tif |-> "GTC"]

\* attempt_unwind(outcome, token_id, size): fetched is the result of
\* get_order_book, accepted is the venue's answer to the POST when
\* submit_order gets as far as sending it. orders lists the parameters of
\* the submit_order calls made, sent tells whether the call passed validate
\* and reached the venue.
attempt_unwind(leg, size, fetched, accepted) ==
    IF ~IsSome(fetched)
    THEN [leg |-> leg, size |-> size, book |-> None, orders |-> <<>>,
          sent |-> FALSE, message |-> "Failed to get order book"]
    ELSE IF ~IsSome(best_bid(Unwrap(fetched)))
    THEN [leg |-> leg, size |-> size, book |-> fetched, orders |-> <<>>,
          sent |-> FALSE, message |-> "No bids available for unwind"]
    ELSE LET params == UnwindParams(leg, size, Unwrap(best_bid(Unwrap(fetched))))
             valid == validate(params) = "ok"
         IN [leg |-> leg, size |-> size, book |-> fetched,
             orders |-> <<params>>,
             sent |-> valid,
             message |-> IF valid /\ accepted THEN "Unwind order submitted"
                         ELSE "Unwind failed"]

\* attempt_unwind on the filled leg, and the PartialFill value.
AttemptUnwind ==
    \E fetched \in {None} \cup {Some(b) : b \in UnwindBookSet},
       accepted \in BOOLEAN :
        LET filled_size == UnwrapOr(call.filled_size[call.filled_leg],
                                    ExecOpportunity.order_size)
            u == attempt_unwind(call.filled_leg, filled_size, fetched, accepted)
            c == [call EXCEPT
                    !.unwind = Append(@, u),
                    !.unwind_called = @ \cup {call.filled_leg},
                    !.sells = IF u.message = "Unwind order submitted"
                              THEN @ \cup {call.filled_leg} ELSE @]
        IN /\ call.pc = "unwind"
           /\ Finish("PartialFill", c)
           /\ UNCHANGED <<now, dry_run, executor, venue,
                          detVars, bookVars, sharedVars, feedVars, waitVars, runVars, rcVars>>

\* execute hands its value to the caller.
ExecuteReturn ==
    /\ call.pc = "return"
    /\ Return(call.result, ~dry_run, venue, call)
    /\ UNCHANGED <<now, dry_run, executor, venue,
                   detVars, bookVars, sharedVars, feedVars, waitVars, runVars, rcVars>>

\* Time passes. The clock is read only at the head of execute, so time that
\* passes at the other await points is accounted to the fill-wait.
Tick ==
    /\ now < MaxTime
    /\ call.pc \in {"idle", "wait"}
    /\ now' = now + 1
    /\ UNCHANGED <<dry_run, executor, call, venue, prev_call, last_call,
                   detVars, bookVars, sharedVars, feedVars, waitVars, runVars, rcVars>>

NextExecutor ==
    \/ ExecuteStart
    \/ GetBalance
    \/ SubmitBoth
    \/ VenueFill
    \/ VenueKill
    \/ WaitPoll
    \/ WaitDone
    \/ CancelNext
    \/ AttemptUnwind
    \/ ExecuteReturn
    \/ Tick

InitExecutor ==
    /\ DetectorIdle
    /\ BookIdle
    /\ SharedIdle
    /\ FeedIdle
    /\ WaitIdle
    /\ RunIdle
    /\ RcIdle
    /\ now = 0
    /\ dry_run \in BOOLEAN
    /\ executor \in {NewExecutor(c) : c \in CooldownSet}
    /\ call = IdleCall
    /\ venue = NoOrders
    /\ prev_call = [start |-> 0, result |-> "none"]
    /\ last_call = NoCall

SpecExecutor == InitExecutor /\ [][NextExecutor]_vars

-----------------------------------------------------------------------------
(* wait_for_terminal_order *)

\* OrderStatus::is_terminal
is_terminal(status) == status \in {"filled", "canceled", "rejected", "expired"}

\* OrderStatus::is_filled
is_filled(status) == status = "filled"

\* The OrderState get_order_status builds from a parsed answer.
OrderState(report) ==
    [status      |-> report.status,
     filled_size |-> report.filled_size,
     is_terminal |-> IF IsSome(report.status)
                     THEN is_terminal(Unwrap(report.status)) ELSE FALSE,
     is_filled   |-> IF IsSome(report.status)
                     THEN is_filled(Unwrap(report.status)) ELSE FALSE]

\* The state returned when the timeout has elapsed (OrderState::default()).
TimedOutState ==
    [status |-> None, filled_size |-> None,
     is_terminal |-> FALSE, is_filled |-> FALSE]

\* Mutant: any terminal status counts as filled.
poll_result_terminal_is_filled(report, requested_size) ==
    IF ~report.ok THEN None
    ELSE LET state == OrderState(report)
         IN IF IsSome(state.filled_size)
               /\ Unwrap(state.filled_size) >= requested_size
            THEN Some([state EXCEPT !.is_terminal = TRUE, !.is_filled = TRUE])
            ELSE IF IsSome(state.status) /\ is_terminal(Unwrap(state.status))
            THEN Some([state EXCEPT !.is_terminal = TRUE, !.is_filled = TRUE])
            ELSE None

\* The body of the loop after get_order_status: Some(state) when the
\* function returns state, None when it goes on to sleep.
poll_result(report, requested_size) ==
    IF ~report.ok THEN None
    ELSE LET state == OrderState(report)
         IN IF IsSome(state.filled_size)
               /\ Unwrap(state.filled_size) >= requested_size
            THEN Some([state EXCEPT !.is_terminal = TRUE, !.is_filled = TRUE])
            ELSE IF IsSome(state.status) /\ is_terminal(Unwrap(state.status))
            THEN Some([state EXCEPT
                         !.is_terminal = TRUE,
                         !.is_filled = is_filled(Unwrap(state.status))])
            ELSE None

\* The answers get_order_status can give: an error, or a parsed answer whose
\* status and filled size are each present or absent.
StatusSet == {None} \cup {Some(st) : st \in {"live", "filled", "canceled"}}
FilledSizeSet == {None, Some(Shares(3)), Some(Shares(5))}
ReportSet ==
    {NoReport}
    \cup [ok : {TRUE}, status : StatusSet, filled_size : FilledSizeSet]
RequestedSet == {Shares(5)}

\* execute_real calls wait_for_terminal_order for an order it submitted.
WaitStart ==
    \E requested_size \in RequestedSet :
        /\ wait_pc = "idle"
        /\ wait_pc' = "check"
        /\ wait_requested' = requested_size
        /\ UNCHANGED <<wait_clock, wait_polls, wait_last, wait_state,
                       detVars, bookVars, sharedVars, feedVars, execVars, runVars, rcVars>>

\* The head of the loop: if start.elapsed() >= timeout, return.
WaitCheck ==
    /\ wait_pc = "check"
    /\ IF wait_clock >= TimeoutTicks
       THEN /\ wait_pc' = "returned"
            /\ wait_state' = Some(TimedOutState)
       ELSE /\ wait_pc' = "poll"
            /\ UNCHANGED wait_state
    /\ UNCHANGED <<wait_requested, wait_clock, wait_polls, wait_last,
                   detVars, bookVars, sharedVars, feedVars, execVars, runVars, rcVars>>

\* get_order_status answers, after at most one poll interval (the HTTP
\* client's timeout bounds the query), and the answer is classified.
WaitStatus ==
    \E report \in ReportSet, took \in {0, 1} :
        LET r == poll_result(report, wait_requested)
        IN /\ wait_pc = "poll"
           /\ wait_clock' = wait_clock + took
           /\ wait_polls' = wait_polls + 1
           /\ wait_last' = report
           /\ IF IsSome(r)
              THEN /\ wait_pc' = "returned"
                   /\ wait_state' = r
              ELSE /\ wait_pc' = "sleep"
                   /\ UNCHANGED wait_state
           /\ UNCHANGED <<wait_requested,
                          detVars, bookVars, sharedVars, feedVars, execVars, runVars, rcVars>>

\* sleep(poll_interval).await
WaitSleep ==
    /\ wait_pc = "sleep"
    /\ wait_pc' = "check"
    /\ wait_clock' = wait_clock + 1
    /\ UNCHANGED <<wait_requested, wait_polls, wait_last, wait_state,
                   detVars, bookVars, sharedVars, feedVars, execVars, runVars, rcVars>>

NextWait ==
    \/ WaitStart
    \/ WaitCheck
    \/ WaitStatus
    \/ WaitSleep

InitWait ==
    DetectorIdle /\ BookIdle /\ SharedIdle /\ FeedIdle /\ ExecIdle /\ WaitIdle /\ RunIdle /\ RcIdle

SpecWait == InitWait /\ [][NextWait]_vars

\* The runtime resumes the task after every await: the status query ends
\* (with an answer or an error) and the sleep ends.
FairSpecWait == SpecWait /\ WF_vars(NextWait)

InitBook ==
    DetectorIdle /\ BookIdle /\ SharedIdle /\ FeedIdle /\ ExecIdle /\ WaitIdle /\ RunIdle /\ RcIdle
SpecBook == InitBook /\ [][NextBook]_vars

InitShared ==
    DetectorIdle /\ BookIdle /\ SharedIdle /\ FeedIdle /\ ExecIdle /\ WaitIdle /\ RunIdle /\ RcIdle
SpecShared == InitShared /\ [][NextShared]_vars

\* MarketWebSocket::new: no books until run() calls init_books.
InitFeed ==
    /\ DetectorIdle
    /\ BookIdle
    /\ FeedIdle
    /\ ExecIdle
    /\ WaitIdle
    /\ RunIdle
    /\ RcIdle
    /\ books = EmptyMap
    /\ committed = EmptyMap
    /\ guard = None
    /\ w_ops = <<>>
    /\ w_k = 0
    /\ reader = ReaderIdle
SpecFeed == InitFeed /\ [][NextFeed]_vars

\* The steps the spawned feed task takes by itself once it is polled: a
\* connection attempt comes back, the backoff sleep ends, a send is polled.
\* Frames, Close frames and stream ends are the venue's to deliver.
FeedTaskStep == FeedConnect \/ FeedBackoff \/ FeedSend \/ FeedSendWake

\* The feed under a scheduler that keeps polling the feed task.
FairSpecFeed == SpecFeed /\ WF_vars(FeedTaskStep)

\* cmd_run (polling) or cmd_run_websocket, started at the outer loop.
InitRun ==
    /\ DetectorIdle
    /\ BookIdle
    /\ SharedIdle
    /\ FeedIdle
    /\ ExecIdle
    /\ WaitIdle
    /\ RcIdle
    /\ wall = 0
    /\ run \in {NewRun(FALSE), NewRun(TRUE)}
    /\ signal = FALSE
    /\ server = "serving"
SpecRun == InitRun /\ [][NextRun]_vars

\* A step of the driver task.
DriverStep ==
    \/ RunDiscover
    \/ RunRetry
    \/ RunHead
    \/ RunAwait
    \/ RunExecuteReturn
    \/ RunSummary

\* The runtime resumes the driver after every await: discovery, the book
\* requests and execute end (their requests have timeouts), the sleeps end,
\* and the select! is woken by its timer if by nothing else.
FairSpecRun == SpecRun /\ WF_vars(DriverStep)

\* run_with_reconnect has spawned the task.
InitReconnect ==
    /\ DetectorIdle
    /\ BookIdle
    /\ SharedIdle
    /\ FeedIdle
    /\ ExecIdle
    /\ WaitIdle
    /\ RunIdle
    /\ rc \in {NewReconnect(m) : m \in MaxDelaySet}
SpecReconnect == InitReconnect /\ [][NextReconnect]_vars

-----------------------------------------------------------------------------
(* Reference definitions for the detector claims, written from the claims'  *)
(* words: cumulative sizes instead of the calculator's running remainder.   *)

RECURSIVE CumSize(_, _)
CumSize(levels, k) == IF k = 0 THEN 0 ELSE levels[k].size + CumSize(levels, k - 1)

Liquidity(levels) == CumSize(levels, Len(levels))

\* The part of level i a walk for T consumes.
Consumed(levels, i, T) ==
    LET before == CumSize(levels, i - 1)
    IN IF before >= T THEN 0 ELSE Min(levels[i].size, T - before)

RECURSIVE RefCostUpTo(_, _, _)
RefCostUpTo(levels, k, T) ==
    IF k = 0 THEN 0
    ELSE RefCostUpTo(levels, k - 1, T) + (Consumed(levels, k, T) * levels[k].price) \div DecUnit

RefTotalCost(levels, T) == RefCostUpTo(levels, Len(levels), T)

\* The price of the last level a walk for T consumes from (Liquidity >= T > 0).
RefWorstPrice(levels, T) ==
    LET k == CHOOSE j \in 1..Len(levels) :
                 /\ CumSize(levels, j) >= T
                 /\ \A h \in 1..(j - 1) : CumSize(levels, h) < T
    IN levels[k].price

Inverted(book) ==
    /\ Len(book.bids) > 0
    /\ Len(book.asks) > 0
    /\ book.asks[1].price < book.bids[1].price

Fillable(book, T) == Len(book.asks) > 0 /\ Liquidity(book.asks) >= T

ArbRan == arb_result # NotRun
ArbIsSome == ArbRan /\ arb_result.kind = "Ok" /\ IsSome(arb_result.opp)
ArbIsNone == ArbRan /\ arb_result.kind = "Ok" /\ ~IsSome(arb_result.opp)
ArbOpp == Unwrap(arb_result.opp)

\* C7: whenever check_arbitrage returns Some(opp), up_price + down_price is at
\* most the threshold, and each leg's price is the worst price of the fill walk
\* over that leg's ask side for the configured order size.
C7_SomeWithinThresholdAtWorstPrice ==
    ArbIsSome =>
        /\ ArbOpp.up_price + ArbOpp.down_price <= config.target_pair_cost
        /\ ArbOpp.up_price = RefWorstPrice(up_book.asks, config.order_size)
        /\ ArbOpp.down_price = RefWorstPrice(down_book.asks, config.order_size)

\* C7 witness: an opportunity whose UP walk spans two levels, so that its limit
\* price is above the best ask.
C7_Witness ==
    /\ ArbIsSome
    /\ ArbOpp.up_price > Unwrap(ArbOpp.best_ask_up)

\* C8: check_arbitrage fails with BookInverted whenever either book is inverted,
\* naming "UP" when the UP book is inverted and "DOWN" otherwise, before any test
\* of empty asks, liquidity or threshold.
C8_InvertedBookRejected ==
    (ArbRan /\ (Inverted(up_book) \/ Inverted(down_book))) =>
        /\ arb_result.kind = "Err"
        /\ arb_result.err = "BookInverted"
        /\ arb_result.side = (IF Inverted(up_book) THEN "UP" ELSE "DOWN")

\* C8 witness: both books inverted and the DOWN book unable to fill the size;
\* the error names UP.
C8_Witness ==
    /\ ArbRan
    /\ Inverted(up_book) /\ Inverted(down_book)
    /\ ~Fillable(down_book, config.order_size)
    /\ arb_result.kind = "Err" /\ arb_result.side = "UP"

\* C9: for books that are not inverted and a positive configured size,
\* check_arbitrage returns Ok, and the answer is Some exactly when both ask
\* sides are non-empty, both can fill the size, and the sum of the two worst
\* prices is at most the threshold (equality included).
C9_SomeIffFillableWithinThreshold ==
    (ArbRan /\ ~Inverted(up_book) /\ ~Inverted(down_book) /\ config.order_size > 0) =>
        /\ arb_result.kind = "Ok"
        /\ IsSome(arb_result.opp) <=>
              /\ Fillable(up_book, config.order_size)
              /\ Fillable(down_book, config.order_size)
              /\ RefWorstPrice(up_book.asks, config.order_size)
                   + RefWorstPrice(down_book.asks, config.order_size)
                   <= config.target_pair_cost

\* C9 witness: an opportunity whose cost equals the threshold.
C9_Witness ==
    /\ ArbIsSome
    /\ ArbOpp.total_cost = config.target_pair_cost

FillRan == fill_result # NotRun
\* The case of C10: an ascending ask side holding at least T > 0.
FillCase == FillRan /\ config.order_size > 0 /\ Fillable(up_book, config.order_size)

\* The parts of C10 that do not involve the quotient.
FillWalkFacts ==
    /\ fill_result.fill.ok
    /\ fill_result.fill.filled_size = config.order_size
    /\ fill_result.fill.total_cost = RefTotalCost(up_book.asks, config.order_size)
    /\ fill_result.fill.worst_price = RefWorstPrice(up_book.asks, config.order_size)
    /\ fill_result.fill.best_price = Some(up_book.asks[1].price)
    /\ Unwrap(fill_result.fill.best_price) <= fill_result.fill.vwap
    /\ fill_result.fill.vwap <= fill_result.fill.worst_price

\* C10 as stated: with liquidity >= T > 0 the walk succeeds with filled_size = T,
\* vwap * T == total_cost and best_price <= vwap <= worst_price.
C10_Original_VwapTimesSizeIsCost ==
    FillCase =>
        /\ FillWalkFacts
        /\ DecMul(fill_result.fill.vwap, config.order_size) = fill_result.fill.total_cost

\* C10 amended: with liquidity >= T > 0 the walk succeeds with filled_size = T,
\* total_cost the sum of consumed size times price, worst_price the last
\* consumed level's price and best_price <= vwap <= worst_price; vwap is
\* total_cost / T rounded to the last representable digit, so vwap * T ==
\* total_cost holds whenever that quotient is exactly representable.
C10_VwapIsRoundedQuotient ==
    FillCase =>
        LET n == fill_result.fill.total_cost * DecUnit
            d == fill_result.fill.vwap * config.order_size - n
        IN /\ FillWalkFacts
           /\ 2 * (IF d < 0 THEN 0 - d ELSE d) <= config.order_size
           /\ (n % config.order_size = 0) =>
                 DecMul(fill_result.fill.vwap, config.order_size)
                     = fill_result.fill.total_cost

\* C10 witness: a walk that spans two levels and whose quotient is exact.
C10_Witness ==
    /\ FillCase
    /\ fill_result.fill.ok
    /\ fill_result.fill.worst_price > Unwrap(fill_result.fill.best_price)
    /\ (fill_result.fill.total_cost * DecUnit) % config.order_size = 0

BookMatches(r) ==
    /\ Entries(l2book.bids) = NonZero(r.bids)
    /\ Entries(l2book.asks) = NonZero(r.asks)

MidApply ==
    /\ IsSome(guard)
    /\ w_k < Len(w_ops)
    /\ books[Unwrap(guard)] # committed[Unwrap(guard)]

\* C6: a copy taken with get_book never shows a half-applied snapshot or delta:
\* it equals the entry as it stood between two operations of the feed task.
C6_ReaderSeesWholeOperations ==
    reader.pc = "done" => reader.copy = reader.boundary

\* C6 witness: the driver has called get_book while the feed task is in the
\* middle of applying an operation to that entry.
C6_Witness ==
    /\ reader.pc = "waiting"
    /\ guard = Some(reader.asset)
    /\ MidApply

\* C3: when the channel is full and the driver still holds the receiver, the
\* feed task does not wait for space (it shuts the client down instead).
C3_Original_FullChannelNeverParksFeed ==
    (Len(chan) = ChanCap /\ driver # "exited") => feed_pc # "send_wait"

\* C4: every frame that applied at least one snapshot or delta to a book
\* offered exactly one BookUpdate to the channel.
C4_Original_AppliedFrameOffersOneUpdate ==
    last_frame.applied > 0 => last_frame.offered = 1

\* Both of the last two calls have returned.
TwoCalls == prev_call.result # "none" /\ last_call.result # "none"

\* C1: with cooldown_seconds > 0, of two consecutive execute calls that start
\* less than cooldown_seconds apart at most one returns a result other than
\* CooldownActive.
C1_AtMostOneResultWithinCooldown ==
    (/\ executor.cooldown_seconds > 0
     /\ TwoCalls
     /\ last_call.start - prev_call.start < executor.cooldown_seconds * TicksPerSec)
    => (prev_call.result = "CooldownActive" \/ last_call.result = "CooldownActive")

\* C1 witness: a live call that went through to a result is followed, some
\* time later but inside the cooldown, by a call that returns CooldownActive.
C1_Witness ==
    /\ executor.cooldown_seconds > 0
    /\ TwoCalls
    /\ last_call.live
    /\ prev_call.result \in {"BothFilled", "PartialFill", "NeitherFilled"}
    /\ last_call.start > prev_call.start
    /\ last_call.start - prev_call.start < executor.cooldown_seconds * TicksPerSec
    /\ last_call.result = "CooldownActive"

\* C2: whenever a live execute returns and exactly one leg's buy order is
\* filled at the venue, an unwind was attempted for that leg and the result is
\* not NeitherFilled.
C2_Original_SingleFillIsUnwound ==
    (last_call.live /\ Cardinality(last_call.filled) = 1)
    => (last_call.filled \subseteq last_call.unwound
        /\ last_call.result # "NeitherFilled")

\* C11: the walk returns InvalidSize whenever T <= 0, whatever the side holds;
\* for T > 0 it returns InsufficientLiquidity exactly when the side's total
\* size is below T, with required = T and available = the side's total size,
\* which is below T.
C11_FillPriceErrors ==
    FillRan =>
        LET T == config.order_size
            f == fill_result.fill
            total == Liquidity(up_book.asks)
        IN /\ T <= 0 => (~f.ok /\ f.err = "InvalidSize")
           /\ T > 0 => /\ (~f.ok) <=> (total < T)
                       /\ ~f.ok => /\ f.err = "InsufficientLiquidity"
                                   /\ f.required = T
                                   /\ f.available = total
                                   /\ f.available < T

\* C11 witness: a walk over a side that holds something, but less than T.
C11_Witness ==
    /\ FillRan
    /\ config.order_size > 0
    /\ ~fill_result.fill.ok
    /\ fill_result.fill.err = "InsufficientLiquidity"
    /\ fill_result.fill.available > 0
    /\ Len(up_book.asks) = 2

\* Every entry of a map of the L2 state has a size above zero.
AllSizesPositive(m) == \A p \in DOMAIN m : m[p] > 0

\* C12: after any sequence of snapshots and deltas, to_levels returns bids in
\* strictly decreasing and asks in strictly increasing price order, every
\* returned level has size > 0, and no size <= 0 is stored in either map.
C12_LevelsSortedAndPositive ==
    /\ AllSizesPositive(l2book.bids)
    /\ AllSizesPositive(l2book.asks)
    /\ book_levels # NoLevels =>
        /\ \A i \in 1..(Len(book_levels.bids) - 1) :
              book_levels.bids[i].price > book_levels.bids[i + 1].price
        /\ \A i \in 1..(Len(book_levels.asks) - 1) :
              book_levels.asks[i].price < book_levels.asks[i + 1].price
        /\ \A i \in 1..Len(book_levels.bids) : book_levels.bids[i].size > 0
        /\ \A i \in 1..Len(book_levels.asks) : book_levels.asks[i].size > 0
        /\ {book_levels.bids[i].price : i \in 1..Len(book_levels.bids)} = DOMAIN l2book.bids
        /\ {book_levels.asks[i].price : i \in 1..Len(book_levels.asks)} = DOMAIN l2book.asks

\* C12 witness: to_levels on a book with two bid prices and two ask prices.
C12_Witness ==
    /\ book_levels # NoLevels
    /\ Len(book_levels.bids) = 2
    /\ Len(book_levels.asks) = 2

-----------------------------------------------------------------------------
(* C13 *)

\* execute has fixed the value it returns and has not yet handed it over.
AtReturn == call.pc = "return"

\* The executor as it was when the call at its return point was entered.
Entry == Unwrap(call.entry)

\* The call sent nothing to the venue: no balance query, no order, no status
\* poll, no cancel, no book fetch for an unwind.
NoVenueRequests ==
    /\ call.balance = None
    /\ \A l \in Legs : call.submit[l] = "none" /\ ~call.polled[l]
    /\ call.cancels = <<>>
    /\ call.unwind = <<>>

\* C13: in dry-run mode a call outside the cooldown whose simulated balance
\* covers the opportunity's total investment returns Simulated, lowers
\* sim_balance and raises total_invested by the total investment, raises
\* total_shares_bought by twice the order size and trades_executed by one
\* (beside the count and the stamp every such call makes), and sends nothing
\* to the venue.
C13_SimulatedTrade ==
    (/\ AtReturn
     /\ dry_run
     /\ ~is_cooldown_active(Entry, call.start)
     /\ Entry.sim_balance >= ExecOpportunity.total_investment)
    => /\ call.result = "Simulated"
       /\ executor =
            [Entry EXCEPT
               !.opportunities_found = @ + 1,
               !.last_execution = Some(call.start),
               !.sim_balance = @ - ExecOpportunity.total_investment,
               !.total_invested = @ + ExecOpportunity.total_investment,
               !.total_shares_bought = @ + 2 * ExecOpportunity.order_size,
               !.trades_executed = @ + 1]
       /\ NoVenueRequests
       /\ venue = NoOrders

\* A second simulated trade is at its return point.
C13_Witness ==
    /\ AtReturn
    /\ dry_run
    /\ call.result = "Simulated"
    /\ executor.trades_executed = 2
    /\ executor.sim_balance = SimBalance - 2 * ExecOpportunity.total_investment

-----------------------------------------------------------------------------
(* C14 *)

\* The balance query of the call in progress answered with less than the
\* total investment times the balance margin.
BalanceFellShort ==
    /\ ~dry_run
    /\ IsSome(call.balance)
    /\ IsSome(Unwrap(call.balance))
    /\ Unwrap(Unwrap(call.balance))
         < DecMul(ExecOpportunity.total_investment, BalanceMargin)

\* C14: in live mode, once the fetched balance is below total_investment
\* times balance_margin the call returns the result InsufficientBalance, and
\* no order is submitted or cancelled for the opportunity.
C14_BalanceGuard ==
    BalanceFellShort
    => /\ AtReturn
       /\ call.result = "InsufficientBalance"
       /\ \A l \in Legs : call.submit[l] = "none" /\ venue[l] = "none"
       /\ call.cancels = <<>>
       /\ call.unwind = <<>>

\* A live call fetched a balance that covers the investment but not the
\* margin, and is about to return.
C14_Witness ==
    /\ BalanceFellShort
    /\ AtReturn
    /\ Unwrap(Unwrap(call.balance)) >= ExecOpportunity.total_investment

-----------------------------------------------------------------------------
(* C15 *)

\* The legs whose submission failed in the call in progress.
FailedSubmits == {l \in Legs : call.submit[l] = "err"}

\* The three trade statistics are as they were when the call was entered.
StatsUnchanged ==
    /\ executor.trades_executed = Entry.trades_executed
    /\ executor.total_invested = Entry.total_invested
    /\ executor.total_shares_bought = Entry.total_shares_bought

\* C15: when exactly one of the two submissions fails, the call issues a
\* cancel for the surviving leg's order and for nothing else, polls no order
\* status, leaves the trade statistics unchanged and returns NeitherFilled,
\* whichever leg failed; when both fail it returns NeitherFilled and issues
\* no cancel.
C15_SubmitFailure ==
    /\ FailedSubmits # {} => \A l \in Legs : ~call.polled[l]
    /\ (AtReturn /\ FailedSubmits # {})
       => /\ call.result = "NeitherFilled"
          /\ StatsUnchanged
          /\ call.unwind = <<>>
          /\ \A l \in Legs :
                FailedSubmits = {l}
                => /\ Len(call.cancels) = 1
                   /\ call.cancels[1].leg = OtherLeg(l)
          /\ FailedSubmits = Legs => call.cancels = <<>>

\* The DOWN submission failed and the UP order was cancelled.
C15_Witness ==
    /\ AtReturn
    /\ FailedSubmits = {"down"}
    /\ call.cancels = <<[leg |-> "up", ok |-> TRUE]>>
    /\ venue["up"] = "canceled"

\* The UP submission failed, the cancel of the DOWN order failed too.
C15_WitnessSymmetric ==
    /\ AtReturn
    /\ FailedSubmits = {"up"}
    /\ call.cancels = <<[leg |-> "down", ok |-> FALSE]>>

-----------------------------------------------------------------------------
(* C16 *)

\* Both legs were submitted and the fill-wait of exactly the given leg
\* reported filled.
OnlyFilled(leg) ==
    /\ \A l \in Legs : call.submit[l] = "ok"
    /\ call.wait[leg] = "filled"
    /\ call.wait[OtherLeg(leg)] = "unfilled"

\* The size execute_real takes as the leg's filled size.
FilledSizeOf(leg) ==
    IF call.filled_size[leg] = None THEN ExecOpportunity.order_size
    ELSE call.filled_size[leg][1]

\* C16: when both legs were submitted and exactly one fill-wait reports
\* filled, the call cancels the other leg's order and no other, invokes the
\* unwind once, on the filled leg's token and with that leg's filled size,
\* and returns PartialFill naming the filled leg.
C16_PartialFill ==
    \A leg \in Legs :
        (AtReturn /\ OnlyFilled(leg))
        => /\ call.result = "PartialFill"
           /\ call.filled_leg = leg
           /\ Len(call.cancels) = 1
           /\ call.cancels[1].leg = OtherLeg(leg)
           /\ Len(call.unwind) = 1
           /\ call.unwind[1].leg = leg
           /\ call.unwind[1].size = FilledSizeOf(leg)
           /\ \A i \in 1..Len(call.unwind[1].orders) :
                 /\ call.unwind[1].orders[i].token_id = leg
                 /\ call.unwind[1].orders[i].size = FilledSizeOf(leg)

\* Only the DOWN leg filled: the UP order was cancelled and a sell order for
\* the DOWN token went out.
C16_Witness ==
    /\ AtReturn
    /\ OnlyFilled("down")
    /\ call.cancels = <<[leg |-> "up", ok |-> TRUE]>>
    /\ call.unwind[1].message = "Unwind order submitted"
    /\ call.filled_size["down"] = None

-----------------------------------------------------------------------------
(* C17 *)

\* Both legs were submitted and neither fill-wait reported filled.
NoneFilled ==
    /\ \A l \in Legs : call.submit[l] = "ok"
    /\ \A l \in Legs : call.wait[l] = "unfilled"

\* C17: when both legs were submitted and neither fill-wait reports filled, a
\* cancel request has been issued for the UP order and for the DOWN order by
\* the time NeitherFilled is returned, whether or not the first cancel
\* succeeded.
C17_Original_BothOrdersCancelled ==
    (AtReturn /\ NoneFilled)
    => /\ call.result = "NeitherFilled"
       /\ \A l \in Legs : \E i \in 1..Len(call.cancels) : call.cancels[i].leg = l

-----------------------------------------------------------------------------
(* C18 *)

\* An unwind has run in the call at its return point.
UnwindRan == AtReturn /\ Len(call.unwind) = 1

C18_WitnessNoBids ==
    /\ UnwindRan
    /\ call.unwind[1].message = "No bids available for unwind"

\* The best bid was at one cent: the sell order is priced at zero and the
\* submission is rejected before it reaches the venue.
C18_WitnessZeroPrice ==
    /\ UnwindRan
    /\ call.unwind[1].orders # <<>>
    /\ call.unwind[1].orders[1].price = 0
    /\ ~call.unwind[1].sent

-----------------------------------------------------------------------------
(* C19 *)

\* The last status query answered with a filled size of at least the
\* requested size.
LastReportsFilledSize ==
    /\ wait_last.ok
    /\ wait_last.filled_size # None
    /\ wait_last.filled_size[1] >= wait_requested

\* The last status query answered with a terminal status.
LastReportsTerminal ==
    /\ wait_last.ok
    /\ wait_last.status # None
    /\ wait_last.status[1] \in {"filled", "canceled", "rejected", "expired"}

WaitReturned == wait_pc = "returned"

\* What holds at every point of a wait.
WaitStepwise ==
    \* the loop goes on only after an error or a non-terminal, unfilled answer
    /\ wait_pc \in {"sleep", "check", "poll"}
       => ~LastReportsFilledSize /\ ~LastReportsTerminal
    \* no status query is started once the timeout has elapsed
    /\ wait_pc = "poll" => wait_clock < TimeoutTicks
    /\ WaitReturned
       => LET state == wait_state[1]
          IN IF LastReportsFilledSize
             THEN state.is_filled /\ state.is_terminal
             ELSE IF LastReportsTerminal
             THEN /\ state.is_terminal
                  /\ state.is_filled <=> (wait_last.status[1] = "filled")
             ELSE \* the timeout: not before it has elapsed, and after a
                  \* query in every poll interval up to it
                  /\ ~state.is_terminal /\ ~state.is_filled
                  /\ wait_clock >= TimeoutTicks
                  /\ wait_polls >= 1
                  /\ wait_polls <= wait_clock
                  /\ wait_clock <= 2 * wait_polls

\* C19: wait_for_terminal_order returns is_filled = true as soon as a status
\* query reports a filled size of at least the requested size; returns
\* is_terminal = true with is_filled = (status is Filled) as soon as a query
\* reports a terminal status; goes on polling, one query per poll interval,
\* through non-terminal answers and query errors; returns is_terminal = false
\* and is_filled = false when it finds the timeout elapsed; and always
\* eventually returns.
C19_WaitForTerminalOrder == [](WaitStepwise) /\ <>(WaitReturned)

\* The wait polled through the whole timeout without a deciding answer.
C19_Witness ==
    /\ WaitReturned
    /\ wait_state = Some(TimedOutState)
    /\ wait_polls = TimeoutTicks
    /\ wait_last.ok
    /\ wait_last.status = Some("live")

\* A query reported the order canceled: terminal and not filled.
C19_WitnessTerminal ==
    /\ WaitReturned
    /\ wait_last.status = Some("canceled")
    /\ wait_state[1].is_terminal
    /\ ~wait_state[1].is_filled
    /\ wait_polls = 2

\* A query reported the full size filled while the status was still live.
C19_WitnessFilledBySize ==
    /\ WaitReturned
    /\ wait_last.status = Some("live")
    /\ wait_last.filled_size = Some(Shares(5))
    /\ wait_state[1].is_filled

-----------------------------------------------------------------------------
(* C20 *)

\* C20: a call that returns CooldownActive, InsufficientBalance,
\* NeitherFilled or PartialFill, or that returns an error, leaves
\* trades_executed, total_invested, total_shares_bought and sim_balance as
\* they were when it was entered; so only BothFilled and Simulated change
\* the three counters.
C20_CountersFrame ==
    /\ (AtReturn /\ call.result \in {"CooldownActive", "InsufficientBalance",
                                      "NeitherFilled", "PartialFill", "Error"})
       => /\ StatsUnchanged
          /\ executor.sim_balance = Entry.sim_balance
    /\ (AtReturn /\ ~StatsUnchanged)
       => call.result \in {"BothFilled", "Simulated"}

\* A partial fill after an earlier trade: the counters are not zero and the
\* call left them alone.
C20_Witness ==
    /\ AtReturn
    /\ call.result = "PartialFill"
    /\ Entry.trades_executed = 1
    /\ executor.trades_executed = 1
    /\ executor.total_invested > 0

\* The simulated balance no longer covers the investment.
C20_WitnessSimulatedRefusal ==
    /\ AtReturn
    /\ dry_run
    /\ call.result = "InsufficientBalance"
    /\ executor.trades_executed = 2

\* The balance query failed and execute returned the error.
C20_WitnessError ==
    /\ AtReturn
    /\ call.result = "Error"
    /\ Entry.opportunities_found = 1

-----------------------------------------------------------------------------
(* C21 *)

\* C21: no step of any execute call lowers trades_executed,
\* opportunities_found, total_invested or total_shares_bought; sim_balance is
\* the one statistic that goes down.
C21_CountersNeverDecrease ==
    [][/\ executor'.trades_executed >= executor.trades_executed
       /\ executor'.opportunities_found >= executor.opportunities_found
       /\ executor'.total_invested >= executor.total_invested
       /\ executor'.total_shares_bought >= executor.total_shares_bought
       /\ executor'.sim_start_balance = executor.sim_start_balance]_vars

\* Two simulated trades have raised the counters and lowered sim_balance.
C21_Witness ==
    /\ executor.trades_executed = 2
    /\ executor.opportunities_found = 3
    /\ executor.total_invested = 2 * ExecOpportunity.total_investment
    /\ executor.total_shares_bought = 4 * ExecOpportunity.order_size
    /\ executor.sim_balance < executor.sim_start_balance

\* A live trade has raised the counters and left sim_balance alone.
C21_WitnessLive ==
    /\ ~dry_run
    /\ executor.trades_executed = 1
    /\ executor.total_invested > 0
    /\ executor.sim_balance = executor.sim_start_balance

-----------------------------------------------------------------------------
(* C22 *)

\* C22: execute returns an error only for invalid order parameters or for a
\* signing failure; a failed request to the venue, the balance query
\* included, ends in a result.
C22_Original_OnlyLocalErrorsEscape ==
    (AtReturn /\ call.result = "Error")
    => call.error \in {"InvalidParams", "SigningError"}

-----------------------------------------------------------------------------
(* C23 *)

\* The feed has connected again and no frame of the new connection has been
\* processed yet.
FreshReconnect ==
    /\ feed_pc = "reading"
    /\ feed_hist.reconnected
    /\ feed_hist.fresh

\* C23: after the feed has re-established its connection and before the
\* first frame of the new connection is applied, the book of every
\* subscribed asset is empty: nothing learned on the previous connection is
\* left.
C23_BooksResetOnReconnect ==
    FreshReconnect
    => /\ DOMAIN books = FeedAssets
       /\ \A a \in FeedAssets : books[a] = DefaultBook

\* The previous connection applied a snapshot and offered its update; the
\* feed has connected again.
C23_Witness ==
    /\ FreshReconnect
    /\ last_frame.applied > 0
    /\ last_frame.offered = 1

-----------------------------------------------------------------------------
(* C24 *)

\* C24: a text frame that cannot be parsed (it is not JSON, or one of its
\* elements lacks an expected field such as event_type) is dropped as a
\* whole: it changes no book and produces no notification.
C24_Original_MalformedFrameDropped ==
    feed_hist.malformed
    => /\ ~feed_hist.changed
       /\ last_frame.applied = 0
       /\ last_frame.offered = 0

-----------------------------------------------------------------------------
(* C25 *)

\* The driver takes an update off the channel and starts detection on it.
DetectionStarts == Len(chan') < Len(chan) /\ driver # "exited"

\* C25: at most one execute call is in flight at any time, and the driver
\* starts detection for a later book update only when no execute call is in
\* flight.
C25_OneExecuteAtATime ==
    [][/\ feed_hist.executing <= 1
       /\ feed_hist'.executing <= 1
       /\ DetectionStarts => feed_hist.executing = 0]_vars

\* An execute call is in flight while the next update waits in the channel.
C25_Witness ==
    /\ feed_hist.executing = 1
    /\ driver = "busy"
    /\ chan # <<>>

-----------------------------------------------------------------------------
\* The driver has left its top-level loop: cmd_run or cmd_run_websocket has
\* returned and main with it.  The outer loop has no break and no return,
\* so no step of the driver leads here.
DriverTerminated == run.pc = "exited"

\* C26 (as the claim words it): once the shutdown signal has been delivered
\* the driver's top-level loop is cancelled, so the driver eventually stops
\* discovering markets and consuming book updates and the process
\* terminates.
C26_Original_LoopCancelledOnShutdown == signal ~> DriverTerminated

-----------------------------------------------------------------------------
\* An execute call started by the driver is in flight.
DriverExecuting == run.pc = "execute"

\* C27 (as the claim words it): the driver acts only on an open market: an
\* execute call it starts for a market begins strictly before that market's
\* close timestamp.
C27_Original_ExecuteOnlyWhileOpen ==
    DriverExecuting => ~is_closed(Unwrap(run.market), Unwrap(run.began))

-----------------------------------------------------------------------------
\* C28: an execute call that returns CooldownActive leaves the executor as
\* it was on entry except for opportunities_found, which it raises by one
\* (so last_execution, trades_executed, total_invested, total_shares_bought
\* and sim_balance are unchanged), and it sends no request to the venue.
C28_CooldownRefusalFrame ==
    (AtReturn /\ call.result = "CooldownActive")
    => /\ executor = [Entry EXCEPT !.opportunities_found = @ + 1]
       /\ NoVenueRequests

\* C28 witness: a call is refused some time after a trade, so the stamp it
\* leaves alone is older than the call and the counters are not zero.
C28_Witness ==
    /\ AtReturn
    /\ call.result = "CooldownActive"
    /\ Entry.trades_executed = 1
    /\ IsSome(Entry.last_execution)
    /\ Unwrap(Entry.last_execution) < call.start
    /\ executor.opportunities_found = 2

\* C28 witness in live mode: the refused call follows a call that traded at
\* the venue.
C28_WitnessLive ==
    /\ AtReturn
    /\ call.result = "CooldownActive"
    /\ ~dry_run
    /\ last_call.live
    /\ last_call.result = "BothFilled"
    /\ Unwrap(Entry.last_execution) < call.start

-----------------------------------------------------------------------------
\* The call in flight, or at its return point, has passed the cooldown guard.
PassedGuard == call.pc # "idle" /\ call.result # "CooldownActive"

\* C29: a call that has passed the cooldown guard has stamped last_execution
\* with its own start time at every later point of the call, whatever it
\* goes on to do; and when a call that passed the guard, whatever its
\* result, is followed by a call less than cooldown_seconds later, that call
\* returns CooldownActive.
C29_StampBeforeAnythingElse ==
    /\ PassedGuard => executor.last_execution = Some(call.start)
    /\ (/\ TwoCalls
        /\ prev_call.result # "CooldownActive"
        /\ last_call.start - prev_call.start
             < executor.cooldown_seconds * TicksPerSec)
       => last_call.result = "CooldownActive"

\* C29 witness: the call that passed the guard ended with an error (the
\* balance query failed), and the next call, inside the cooldown, is refused.
C29_Witness ==
    /\ TwoCalls
    /\ prev_call.result = "Error"
    /\ last_call.start - prev_call.start
         < executor.cooldown_seconds * TicksPerSec
    /\ last_call.result = "CooldownActive"

\* C29 witness: the same after a partial fill, some time after it.
C29_WitnessEveryResult ==
    /\ TwoCalls
    /\ prev_call.result = "PartialFill"
    /\ last_call.start > prev_call.start
    /\ last_call.result = "CooldownActive"

\* C29 witness: a live call is at the balance query, stamped, having sent
\* nothing yet.
C29_WitnessInFlight ==
    /\ call.pc = "balance"
    /\ NoVenueRequests
    /\ executor.last_execution = Some(call.start)
    /\ call.start > 0

-----------------------------------------------------------------------------
\* The size a leg's fill-wait returned, or the order size where it returned
\* none.
FilledSize(leg) ==
    UnwrapOr(call.filled_size[leg], ExecOpportunity.order_size)

\* The investment at the limit prices: filled size times the opportunity's
\* price, leg by leg.
InvestmentAtLimits ==
    DecMul(FilledSize("up"), ExecOpportunity.up_price)
    + DecMul(FilledSize("down"), ExecOpportunity.down_price)

\* C30: a call that returns BothFilled raises trades_executed by one,
\* total_invested by the up size times up_price plus the down size times
\* down_price, and total_shares_bought by the sum of the two sizes, the sizes
\* being those the fill-waits returned (the order size where a wait returned
\* none); it changes nothing else but the count and the stamp every such
\* call makes, and the result carries the same investment.
C30_BothFilledStatistics ==
    (AtReturn /\ call.result = "BothFilled")
    => /\ executor =
            [Entry EXCEPT
               !.opportunities_found = @ + 1,
               !.last_execution = Some(call.start),
               !.trades_executed = @ + 1,
               !.total_invested = @ + InvestmentAtLimits,
               !.total_shares_bought = @ + FilledSize("up") + FilledSize("down")]
       /\ call.actual_investment = Some(InvestmentAtLimits)

\* C30 witness: both legs filled, and the DOWN wait returned a size that is
\* not the order size, after an earlier trade.
C30_Witness ==
    /\ AtReturn
    /\ call.result = "BothFilled"
    /\ call.filled_size["down"] # None
    /\ FilledSize("down") # ExecOpportunity.order_size
    /\ FilledSize("up") = ExecOpportunity.order_size
    /\ Entry.trades_executed = 1

\* C30 witness: neither wait returned a size.
C30_WitnessNoSizes ==
    /\ AtReturn
    /\ call.result = "BothFilled"
    /\ call.filled_size = [l \in Legs |-> None]
    /\ executor.total_invested
         = Entry.total_invested + ExecOpportunity.total_investment

-----------------------------------------------------------------------------
\* A cancel request for the leg's order has been issued in the call.
CancelIssued(leg) == \E i \in 1..Len(call.cancels) : call.cancels[i].leg = leg

\* The call is about to attempt the unwind, has attempted it, or is about to
\* return PartialFill.
AtOrPastUnwind ==
    \/ call.pc = "unwind"
    \/ call.unwind # <<>>
    \/ (AtReturn /\ call.result = "PartialFill")

\* C31: the two submissions are joined: the result of one is known exactly
\* when the result of the other is, whichever of them failed, and no order
\* status is polled before both are known; and from the point where the
\* unwind of a filled leg is about to be attempted, through the return of
\* PartialFill, the cancel request for the other leg has already been issued.
C31_JoinThenWaitThenCancel ==
    /\ (call.submit["up"] = "none") <=> (call.submit["down"] = "none")
    /\ \A l \in Legs :
         call.polled[l] => \A k \in Legs : call.submit[k] # "none"
    /\ AtOrPastUnwind
       => /\ call.filled_leg \in Legs
          /\ CancelIssued(OtherLeg(call.filled_leg))

\* C31 witness: the unwind of the UP leg is about to be attempted, after both
\* submissions succeeded, both orders were polled and the DOWN order's cancel
\* was issued.
C31_Witness ==
    /\ call.pc = "unwind"
    /\ call.unwind = <<>>
    /\ call.filled_leg = "up"
    /\ \A l \in Legs : call.polled[l]
    /\ CancelIssued("down")

\* C31 witness: the DOWN submission was made although the UP one failed.
C31_WitnessJoin ==
    /\ call.submit["up"] = "err"
    /\ call.submit["down"] = "ok"
    /\ \A l \in Legs : ~call.polled[l]

-----------------------------------------------------------------------------
\* The cancel of the unfilled leg's order, issued after a one-sided fill,
\* has failed.
RecoveryCancelFailed ==
    /\ call.after_cancel = "unwind"
    /\ call.cancels # <<>>
    /\ ~call.cancels[Len(call.cancels)].ok

\* C32: when the cancel of the unfilled leg fails during partial-fill
\* recovery the call goes on to the unwind of the filled leg, and it returns
\* PartialFill with that unwind attempted, not an error.
C32_FailedCancelDoesNotAbort ==
    RecoveryCancelFailed
    => /\ call.pc \in {"unwind", "return"}
       /\ call.error = "none"
       /\ AtReturn => /\ call.result = "PartialFill"
                      /\ Len(call.unwind) = 1
                      /\ call.unwind[1].leg = call.filled_leg
                      /\ call.unwind_called = {call.filled_leg}

\* C32 witness: PartialFill is returned after the cancel failed, the unwind's
\* sell order having been sent.
C32_Witness ==
    /\ AtReturn
    /\ RecoveryCancelFailed
    /\ call.result = "PartialFill"
    /\ call.sells = {call.filled_leg}

-----------------------------------------------------------------------------
\* The feed task is in a backoff sleep.
Sleeping == rc.pc = "sleep"

\* C33 (as the claim words it): the attempt counter that drives the backoff
\* delay is reset by the reception of a frame and by nothing else, so the
\* value a delay is computed from is the number of sleeps made since the last
\* frame was received.
C33_Original_ResetOnFrameReception ==
    Sleeping => rc.used = rc.quiet - 1

\* C34 (as the claim words it): every sleep lasts
\* min(initial_delay * multiplier^attempt, max_delay), which never exceeds
\* max_delay, follows an increment of the reconnect counter and precedes a
\* retry with the same assets; and across consecutive failures (sleeps with
\* no frame received in between) the delay never decreases.
C34_Original_BackoffNeverDecreases ==
    Sleeping
    => /\ rc.delay = Min(rc.config.initial_delay_ms
                           * powi(rc.config.backoff_multiplier, rc.used),
                         rc.config.max_delay_s * 1000)
       /\ rc.delay <= rc.config.max_delay_s * 1000
       /\ rc.reconnect_attempts >= 1
       /\ rc.subscribed = Some(FeedAssets)
       /\ IsSome(rc.prev_delay) => rc.delay >= Unwrap(rc.prev_delay)

-----------------------------------------------------------------------------
\* The driver is in the monitoring loop of a market whose close timestamp
\* has passed.
MonitoringClosedMarket ==
    /\ run.pc \in {"head", "await", "execute"}
    /\ wall >= Unwrap(run.market).end_timestamp

\* The driver is at the summary that follows the monitoring loop.
AtSummary == run.pc = "summary"

\* C35: a driver that is in the monitoring loop of a market whose close
\* timestamp has passed eventually reaches the summary, whether or not an
\* update arrives and whatever detection and execute returned, and from the
\* summary it eventually returns to market discovery.
C35_LeavesClosedMarket ==
    /\ MonitoringClosedMarket ~> AtSummary
    /\ AtSummary ~> (run.pc = "discover")

\* C35 witness: the driver, fed by the websocket, is at the summary of a
\* closed market in which it had started an execute call.
C35_Witness ==
    /\ AtSummary
    /\ run.websocket
    /\ IsSome(run.began)
    /\ Unwrap(run.began) >= Unwrap(run.market).start_timestamp
    /\ wall >= Unwrap(run.market).end_timestamp

\* C35 witness: the polling driver is awaiting execute after the close.
C35_WitnessExecuting ==
    /\ ~run.websocket
    /\ run.pc = "execute"
    /\ wall > Unwrap(run.market).end_timestamp

-----------------------------------------------------------------------------
\* C36: in dry-run mode, from a non-negative simulated balance and with an
\* opportunity whose total investment is not negative, the simulated balance
\* is never negative and, together with the total invested, always makes up
\* the starting balance.
C36_SimulatedBalanceConserved ==
    (/\ dry_run
     /\ executor.sim_start_balance >= 0
     /\ ExecOpportunity.total_investment >= 0)
    => /\ executor.sim_balance >= 0
       /\ executor.sim_balance + executor.total_invested
            = executor.sim_start_balance

\* C36 witness: two simulated trades have left less than a third one needs,
\* and the third call has been refused for lack of balance.
C36_Witness ==
    /\ dry_run
    /\ AtReturn
    /\ call.result = "InsufficientBalance"
    /\ executor.trades_executed = 2
    /\ executor.total_invested = 2 * ExecOpportunity.total_investment
    /\ executor.sim_balance < ExecOpportunity.total_investment
    /\ executor.sim_balance > 0

-----------------------------------------------------------------------------
\* C37: whenever execute returns BothFilled, the up and down filled sizes are
\* equal and both are at least the requested order size.
C37_Original_BothFilledHedged ==
    (AtReturn /\ call.result = "BothFilled")
    => /\ FilledSize("up") = FilledSize("down")
       /\ FilledSize("up") >= ExecOpportunity.order_size
       /\ FilledSize("down") >= ExecOpportunity.order_size

-----------------------------------------------------------------------------
\* C38: with a configuration that passes Config::validate, every opportunity
\* check_arbitrage returns costs less than 1 per pair, has a positive profit
\* per share and a positive expected profit, and invests less than it expects
\* to be paid out.
C38_ValidatedOpportunityProfitable ==
    (/\ config_validate(config)
     /\ arb_result.kind = "Ok"
     /\ arb_result.opp # None)
    => LET opp == Unwrap(arb_result.opp)
       IN /\ opp.total_cost < DecUnit
          /\ opp.profit_per_share > 0
          /\ opp.expected_profit > 0
          /\ opp.total_investment < opp.expected_payout

\* C38 witness: an opportunity found under a validated configuration whose
\* pair cost sits exactly on the threshold.
C38_Witness ==
    /\ config_validate(config)
    /\ arb_result.kind = "Ok"
    /\ arb_result.opp # None
    /\ Unwrap(arb_result.opp).total_cost = config.target_pair_cost
    /\ Unwrap(arb_result.opp).order_size = Shares(7)

\* C38 witness: without validation the conclusion fails, a threshold of 1
\* admits a pair that costs exactly 1 and earns nothing.
C38_WitnessUnvalidated ==
    /\ ~config_validate(config)
    /\ arb_result.kind = "Ok"
    /\ arb_result.opp # None
    /\ Unwrap(arb_result.opp).profit_per_share = 0

-----------------------------------------------------------------------------
\* C39: whenever execute returns CooldownActive, the remaining seconds it
\* reports are at least 1 and at most cooldown_seconds, never 0.
C39_Original_RemainingAtLeastOne ==
    (AtReturn /\ call.result = "CooldownActive")
    => /\ Unwrap(call.remaining_seconds) >= 1
       /\ Unwrap(call.remaining_seconds) <= executor.cooldown_seconds

-----------------------------------------------------------------------------
\* C40: once the driver has finished a market and dropped the notification
\* receiver, the feed task spawned for that market eventually terminates.
C40_Original_FeedTaskTerminates ==
    (driver = "exited") ~> (feed_pc = "stopped")

====
